---- MODULE Spec2Model ----
(***************************************************************************)
(* A model of the orchestration core of gemini_app.py: the sandboxed        *)
(* workspace (safe paths, file operations, trash), the directive            *)
(* interpreter, the plan executor with its replanning protocol, and the     *)
(* memory journal.                                                          *)
(*                                                                          *)
(* Conventions.  A file name is the sequence of its dot-separated parts     *)
(* ("a.txt" is <<"a","txt">>, ".trash" is <<"","trash">>); an absolute      *)
(* path is the sequence of its names from the filesystem root; a text is    *)
(* the sequence of its characters.                                          *)
(***************************************************************************)
EXTENDS Integers, Sequences, FiniteSets, TLC

VARIABLES
    fs,          \* the filesystem: absolute path -> node
    clock,       \* datetime.now(), in seconds
    lastOp,      \* the last workspace operation and how it ended
    probe,       \* the last _safe_path call: candidate and result
    journal,     \* memory.txt: the lines of the journal file
    appended,    \* the number of _log_to_memory calls made
    readback,    \* lines, as the last pruning pass read them back
    response_text,          \* the text _process_enhanced_commands works on
    segments,               \* the candidates the text was written from
    scan,                   \* where finditer goes on; 0 once the text is exhausted
    out,                    \* the events yielded so far
    dispatched,             \* the handler calls made so far, in order
    lastCmd,                \* the last match: its callee, the process run, its events
    recent_changes,         \* project_context["recent_changes"]
    project_files_changed,
    user_preferences,
    pc,                     \* where run_enhanced_interaction stands
    plan_steps,             \* the plan under execution
    step_index,             \* i, the index of the next step (from 0)
    completed_normally,
    replan_failed_to_get_new_steps,
    previous_step_output,
    output_from_completed_step_for_maincoder,
    current_attempt,
    replans,                \* the replan requests served in this run
    report,                 \* how INTERACTION_END names the end of the run
    lastStep,               \* what the last piece of the run did
    fnCall,                 \* the last call of a function checked on its own:
                            \* its name, its arguments and what it returned
    stream,                 \* an agent's generator over the stream of its model:
                            \* its locals, the events it yielded, what it returned
    msg_queue,              \* EnhancedGeminiIDE.msg_queue
    workers,                \* the threads started by send_enhanced_prompt, by request
    gui,                    \* the main thread: the state of the input widgets, where
                            \* _process_messages stands, the messages it has handled
    enqueued                \* every message put on msg_queue, in the order of the puts

wsVars == <<fs, clock, lastOp>>

spVars == <<probe>>

memVars == <<journal, appended, readback>>

cmdVars == <<response_text, segments, scan, out, dispatched, lastCmd, recent_changes,
             project_files_changed, user_preferences>>

runVars == <<pc, plan_steps, step_index, completed_normally,
             replan_failed_to_get_new_steps, previous_step_output,
             output_from_completed_step_for_maincoder, current_attempt, replans, report,
             lastStep>>

fnVars == <<fnCall, stream, msg_queue, workers, gui, enqueued>>

guiVars == <<msg_queue, workers, gui, enqueued>>

vars == <<wsVars, spVars, memVars, cmdVars, runVars, fnVars>>

(***************************************************************************)
(* Generic helpers.                                                         *)
(***************************************************************************)
IsPrefix(p, q) == Len(p) <= Len(q) /\ SubSeq(q, 1, Len(p)) = p

Front(s) == SubSeq(s, 1, Len(s) - 1)

Last(s) == s[Len(s)]

(***************************************************************************)
(* Names and paths.                                                         *)
(***************************************************************************)
DOT == <<"", "">>            \* the name "."
DOTDOT == <<"", "", "">>     \* the name ".."
TRASH_DIR_NAME == <<"", "trash">>

CWD == << <<"home">> >>
VM_DIR == << <<"vm">> >>     \* Path('vm'), relative to the working directory

\* Path.suffix: the part after the last dot, unless the dot is the first or
\* the last character of the name.
HasSuffix(name) ==
    /\ Len(name) >= 2
    /\ Last(name) # ""
    /\ ~(Len(name) = 2 /\ name[1] = "")

PathStem(name) == IF HasSuffix(name) THEN Front(name) ELSE name

PathSuffix(name) == IF HasSuffix(name) THEN <<Last(name)>> ELSE <<>>

Parent(p) == IF p = <<>> THEN <<>> ELSE Front(p)

\* os.path.realpath, non-strict: "." is dropped, ".." pops the last name of
\* the path resolved so far, a name that is a symbolic link is replaced by
\* its (absolute, resolved) target, a missing name is appended as it is.
RECURSIVE Walk(_, _, _)
Walk(f, cur, rest) ==
    IF rest = <<>> THEN cur
    ELSE LET c == Head(rest)
             nxt == Append(cur, c)
         IN  IF c = DOT THEN Walk(f, cur, Tail(rest))
             ELSE IF c = DOTDOT THEN Walk(f, Parent(cur), Tail(rest))
             ELSE IF nxt \in DOMAIN f /\ f[nxt].kind = "link"
                  THEN Walk(f, f[nxt].target, Tail(rest))
                  ELSE Walk(f, nxt, Tail(rest))

\* (VM_DIR / filename_str).resolve(): an absolute candidate replaces VM_DIR.
Resolve(f, cand) ==
    IF cand.abs THEN Walk(f, <<>>, cand.parts)
    ELSE Walk(f, <<>>, CWD \o VM_DIR \o cand.parts)

VmDirResolved(f) == Walk(f, <<>>, CWD \o VM_DIR)

\* full_path.relative_to(vm_dir_resolved) succeeds.
RelativeTo(p, base) == IsPrefix(base, p)

NoPath == [ok |-> FALSE, path |-> <<>>]

SafePathNoCheck(f, cand) ==
    IF ~cand.abs /\ cand.parts = <<>> THEN NoPath
    ELSE [ok |-> TRUE, path |-> Resolve(f, cand)]

\* _safe_path: None for the empty string, else the resolved path if it is
\* relative to the resolved VM_DIR, else None.
SafePath(f, cand) ==
    IF ~cand.abs /\ cand.parts = <<>> THEN NoPath
    ELSE LET full_path == Resolve(f, cand)
         IN  IF RelativeTo(full_path, VmDirResolved(f))
             THEN [ok |-> TRUE, path |-> full_path]
             ELSE NoPath

(***************************************************************************)
(* Filesystem primitives (pathlib / os / shutil) on resolved paths.         *)
(* Each returns [ok, fs]: ok = FALSE stands for the OSError raised.         *)
(***************************************************************************)
Exists(f, p) == p \in DOMAIN f

IsDir(f, p) == p \in DOMAIN f /\ f[p].kind = "dir"

IsFile(f, p) == p \in DOMAIN f /\ f[p].kind = "file"

DirNode == [kind |-> "dir", content |-> <<>>, target |-> <<>>]

FileNode(c) == [kind |-> "file", content |-> c, target |-> <<>>]

LinkNode(t) == [kind |-> "link", content |-> <<>>, target |-> t]

Prefixes(p) == {SubSeq(p, 1, k) : k \in 0..Len(p)}

\* Path.mkdir(parents=True, exist_ok=True)
MkdirP(f, d) ==
    IF \E q \in Prefixes(d) : Exists(f, q) /\ ~IsDir(f, q)
    THEN [ok |-> FALSE, fs |-> f]
    ELSE [ok |-> TRUE,
          fs |-> [q \in DOMAIN f \cup Prefixes(d) |->
                     IF q \in DOMAIN f THEN f[q] ELSE DirNode]]

\* Path.write_text / write_bytes: the parent must be a directory and the
\* path must not be a directory.
WriteText(f, p, c) ==
    IF p = <<>> \/ ~IsDir(f, Parent(p)) \/ IsDir(f, p)
    THEN [ok |-> FALSE, fs |-> f]
    ELSE [ok |-> TRUE,
          fs |-> [q \in DOMAIN f \cup {p} |-> IF q = p THEN FileNode(c) ELSE f[q]]]

Subtree(f, p) == {q \in DOMAIN f : IsPrefix(p, q)}

\* the tree with the subtree at src moved to dst (dst's old subtree dropped)
MoveTree(f, src, dst) ==
    LET moved == {dst \o SubSeq(q, Len(src) + 1, Len(q)) : q \in Subtree(f, src)}
        kept == (DOMAIN f \ Subtree(f, src)) \ Subtree(f, dst)
    IN  [q \in kept \cup moved |->
            IF q \in moved
            THEN f[src \o SubSeq(q, Len(dst) + 1, Len(q))]
            ELSE f[q]]

\* os.rename(src, dst) on POSIX: a file replaces an existing file, a
\* directory replaces an existing empty directory; everything else that
\* exists at dst, a missing parent of dst, and a move of a directory into
\* its own subtree are errors.
OsRename(f, src, dst) ==
    IF ~Exists(f, src) \/ src = <<>> \/ dst = <<>>
    THEN [ok |-> FALSE, fs |-> f]
    ELSE IF src = dst THEN [ok |-> TRUE, fs |-> f]
    ELSE IF
       \/ ~IsDir(f, Parent(dst))
       \/ (IsDir(f, src) /\ IsPrefix(src, dst) /\ src # dst)
       \/ (Exists(f, dst) /\ IsDir(f, src) /\ ~IsDir(f, dst))
       \/ (Exists(f, dst) /\ ~IsDir(f, src) /\ IsDir(f, dst))
       \/ (IsDir(f, dst) /\ IsDir(f, src) /\ Subtree(f, dst) # {dst})
    THEN [ok |-> FALSE, fs |-> f]
    ELSE [ok |-> TRUE, fs |-> MoveTree(f, src, dst)]

\* shutil.move(src, dst): into dst when dst is a directory, else os.rename;
\* the copy fallback fails where the rename does (one filesystem), and a
\* directory moved into itself is an error.
ShutilMove(f, src, dst) ==
    IF IsDir(f, dst)
    THEN IF Exists(f, Append(dst, Last(src)))
         THEN [ok |-> FALSE, fs |-> f]
         ELSE OsRename(f, src, Append(dst, Last(src)))
    ELSE OsRename(f, src, dst)

(***************************************************************************)
(* Texts (str): sequences of characters; NL is the newline character.       *)
(***************************************************************************)
NL == "\n"

\* str.splitlines(): the lines without their line ends; no empty last line
\* after a final newline.
RECURSIVE SplitAcc(_, _, _)
SplitAcc(text, cur, acc) ==
    IF text = <<>> THEN (IF cur = <<>> THEN acc ELSE Append(acc, cur))
    ELSE IF Head(text) = NL THEN SplitAcc(Tail(text), <<>>, Append(acc, cur))
    ELSE SplitAcc(Tail(text), Append(cur, Head(text)), acc)

SplitLines(text) == SplitAcc(text, <<>>, <<>>)

\* "\n".join(lines)
RECURSIVE JoinLines(_)
JoinLines(lines) ==
    IF lines = <<>> THEN <<>>
    ELSE IF Len(lines) = 1 THEN lines[1]
    ELSE lines[1] \o <<NL>> \o JoinLines(Tail(lines))

EndsWithNL(text) == text # <<>> /\ Last(text) = NL

StartsWith(text, pre) == IsPrefix(pre, text)

\* old in content
Contains(text, old) ==
    \E k \in 0..(Len(text) - Len(old)) : SubSeq(text, k + 1, k + Len(old)) = old

\* str.replace(old, new): the non-overlapping occurrences, left to right;
\* an empty old matches before every character and at the end.
RECURSIVE StrReplace(_, _, _)
StrReplace(text, old, new) ==
    IF old = <<>>
    THEN IF text = <<>> THEN new
         ELSE new \o <<Head(text)>> \o StrReplace(Tail(text), old, new)
    ELSE IF Len(text) < Len(old) THEN text
    ELSE IF StartsWith(text, old)
         THEN new \o StrReplace(SubSeq(text, Len(old) + 1, Len(text)), old, new)
         ELSE <<Head(text)>> \o StrReplace(Tail(text), old, new)

\* a variant of str.count that counts the overlapping occurrences too
RECURSIVE StrCountOverlapping(_, _)
StrCountOverlapping(text, old) ==
    IF old = <<>> THEN Len(text) + 1
    ELSE IF Len(text) < Len(old) THEN 0
    ELSE IF StartsWith(text, old)
         THEN 1 + StrCountOverlapping(Tail(text), old)
         ELSE StrCountOverlapping(Tail(text), old)

\* str.count(old)
RECURSIVE StrCount(_, _)
StrCount(text, old) ==
    IF old = <<>> THEN Len(text) + 1
    ELSE IF Len(text) < Len(old) THEN 0
    ELSE IF StartsWith(text, old)
         THEN 1 + StrCount(SubSeq(text, Len(old) + 1, Len(text)), old)
         ELSE StrCount(Tail(text), old)

(***************************************************************************)
(* Workspace operations (the directive handlers).  Each returns            *)
(* [res, fs]; res.icon is the mark the result string starts with:          *)
(* "OK" (check mark), "ERR" (cross), "INFO" (information), "TRASH" (bin).  *)
(***************************************************************************)
Res(icon, tag) == [icon |-> icon, tag |-> tag]

Ret(icon, tag, f) == [res |-> Res(icon, tag), fs |-> f]

\* a variant of _create_file without the test of filepath.exists()
CreateFileNoExistsTest(f, path, content) ==
    LET sp == SafePath(f, path)
        filepath == sp.path
    IN  IF ~sp.ok THEN Ret("ERR", "Invalid path", f)
        ELSE LET mk == MkdirP(f, Parent(filepath))
                 wt == WriteText(mk.fs, filepath, content)
             IN  IF ~mk.ok THEN Ret("ERR", "Error creating file", f)
                 ELSE IF ~wt.ok THEN Ret("ERR", "Error creating file", mk.fs)
                 ELSE Ret("OK", "Created file", wt.fs)

\* _create_file
CreateFile(f, path, content) ==
    LET sp == SafePath(f, path)
        filepath == sp.path
    IN  IF ~sp.ok THEN Ret("ERR", "Invalid path", f)
        ELSE IF Exists(f, filepath) THEN Ret("ERR", "File already exists", f)
        ELSE LET mk == MkdirP(f, Parent(filepath))
                 wt == WriteText(mk.fs, filepath, content)
             IN  IF ~mk.ok THEN Ret("ERR", "Error creating file", f)
                 ELSE IF ~wt.ok THEN Ret("ERR", "Error creating file", mk.fs)
                 ELSE Ret("OK", "Created file", wt.fs)

\* _write_to_file
WriteToFile(f, path, content) ==
    LET sp == SafePath(f, path)
        filepath == sp.path
    IN  IF ~sp.ok THEN Ret("ERR", "Invalid path", f)
        ELSE LET mk == MkdirP(f, Parent(filepath))
                 wt == WriteText(mk.fs, filepath, content)
             IN  IF ~mk.ok THEN Ret("ERR", "Error creating parent directories", f)
                 ELSE IF ~wt.ok THEN Ret("ERR", "Error writing to file", mk.fs)
                 ELSE Ret("OK", "Updated file", wt.fs)

\* the timestamp and counter appended on a name collision in the trash
Stamp(now, counter) == ToString(now) \o "_" \o ToString(counter)

StampedDirName(orig, now, counter) == Append(orig, Stamp(now, counter))

StampedFileName(orig, now, counter) ==
    Append(PathStem(orig), Stamp(now, counter)) \o PathSuffix(orig)

\* the while loop of _delete_file: the first name, counting from the
\* current counter, that does not exist in the trash
RECURSIVE TrashDestination(_, _, _, _, _, _)
TrashDestination(f, trash_dir, dest, orig, src_is_dir, st) ==
    IF ~Exists(f, Append(trash_dir, dest)) THEN Append(trash_dir, dest)
    ELSE LET counter == st.counter + 1
             new_name == IF src_is_dir
                         THEN StampedDirName(orig, st.now, counter)
                         ELSE StampedFileName(orig, st.now, counter)
         IN  TrashDestination(f, trash_dir, new_name, orig, src_is_dir,
                              [now |-> st.now, counter |-> counter])

TrashDir == CWD \o VM_DIR \o <<TRASH_DIR_NAME>>

\* _delete_file
DeleteFile(f, path, now) ==
    LET sp == SafePath(f, path)
        filepath_to_trash == sp.path
    IN  IF ~sp.ok \/ ~Exists(f, filepath_to_trash) THEN Ret("ERR", "Item not found", f)
        ELSE LET mk == MkdirP(f, TrashDir)
             IN  IF ~mk.ok THEN Ret("ERR", "Error creating trash directory", f)
                 ELSE LET name == Last(filepath_to_trash)
                          dest == TrashDestination(mk.fs, TrashDir, name, name,
                                      IsDir(mk.fs, filepath_to_trash),
                                      [now |-> now, counter |-> 0])
                          mv == ShutilMove(mk.fs, filepath_to_trash, dest)
                      IN  IF ~mv.ok THEN Ret("ERR", "Error moving to trash", mk.fs)
                          ELSE Ret("TRASH", "Moved to trash", mv.fs)

\* _move_to_trash: the loop over image_paths_to_move, from the k-th path
\* on; messages is the list of messages appended so far
RECURSIVE MoveEachToTrash(_, _, _, _, _)
MoveEachToTrash(f, image_paths_to_move, k, now, messages) ==
    IF k > Len(image_paths_to_move) THEN [messages |-> messages, fs |-> f]
    ELSE LET sp == SafePath(f, image_paths_to_move[k])
             source_path == sp.path
             dest == TrashDestination(f, TrashDir, Last(source_path), Last(source_path),
                                      FALSE, [now |-> now, counter |-> 0])
             mv == ShutilMove(f, source_path, dest)
         IN  IF ~sp.ok \/ ~Exists(f, source_path)
             THEN MoveEachToTrash(f, image_paths_to_move, k + 1, now,
                                  Append(messages, Res("INFO", "File not found")))
             ELSE IF ~IsFile(f, source_path)
             THEN MoveEachToTrash(f, image_paths_to_move, k + 1, now,
                                  Append(messages, Res("INFO", "Path is not a file")))
             ELSE IF ~mv.ok
             THEN MoveEachToTrash(f, image_paths_to_move, k + 1, now,
                                  Append(messages, Res("ERR", "Error moving to trash")))
             ELSE MoveEachToTrash(mv.fs, image_paths_to_move, k + 1, now,
                                  Append(messages, Res("TRASH", "Moved to trash")))

\* _move_to_trash
MoveToTrash(f, image_paths_to_move, now) ==
    LET mk == MkdirP(f, TrashDir)
    IN  IF ~mk.ok
        THEN [messages |-> <<Res("ERR", "Error creating trash directory")>>, fs |-> f]
        ELSE MoveEachToTrash(mk.fs, image_paths_to_move, 1, now, <<>>)

RenameFileUncheckedTarget(f, old_path, new_path) ==
    LET old_safe_path == SafePath(f, old_path)
        new_safe_path == SafePathNoCheck(f, new_path)
    IN  IF ~old_safe_path.ok THEN Ret("ERR", "Invalid old path", f)
        ELSE IF ~new_safe_path.ok THEN Ret("ERR", "Invalid new path", f)
        ELSE IF ~Exists(f, old_safe_path.path)
             THEN Ret("ERR", "Source path does not exist", f)
        ELSE LET mk == MkdirP(f, Parent(new_safe_path.path))
                 mv == OsRename(mk.fs, old_safe_path.path, new_safe_path.path)
             IN  IF ~mk.ok THEN Ret("ERR", "Error renaming", f)
                 ELSE IF ~mv.ok THEN Ret("ERR", "Error renaming", mk.fs)
                 ELSE Ret("OK", "Renamed", mv.fs)

\* _rename_file
RenameFile(f, old_path, new_path) ==
    LET old_safe_path == SafePath(f, old_path)
        new_safe_path == SafePath(f, new_path)
    IN  IF ~old_safe_path.ok THEN Ret("ERR", "Invalid old path", f)
        ELSE IF ~new_safe_path.ok THEN Ret("ERR", "Invalid new path", f)
        ELSE IF ~Exists(f, old_safe_path.path)
             THEN Ret("ERR", "Source path does not exist", f)
        ELSE LET mk == MkdirP(f, Parent(new_safe_path.path))
                 mv == OsRename(mk.fs, old_safe_path.path, new_safe_path.path)
             IN  IF ~mk.ok THEN Ret("ERR", "Error renaming", f)
                 ELSE IF ~mv.ok THEN Ret("ERR", "Error renaming", mk.fs)
                 ELSE Ret("OK", "Renamed", mv.fs)

\* _replace_file_snippet
ReplaceFileSnippet(f, path, old_snippet, new_snippet) ==
    LET sp == SafePath(f, path)
        filepath == sp.path
    IN  IF ~sp.ok THEN Ret("ERR", "Invalid path", f)
        ELSE IF ~IsFile(f, filepath) THEN Ret("ERR", "File not found or is not a file", f)
        ELSE LET content == f[filepath].content
                 modified_content == StrReplace(content, old_snippet, new_snippet)
                 wt == WriteText(f, filepath, modified_content)
             IN  IF ~Contains(content, old_snippet)
                 THEN Ret("INFO", "Snippet not found", f)
                 ELSE IF ~wt.ok THEN Ret("ERR", "Error writing to file", f)
                 ELSE [res |-> [icon |-> "OK", tag |-> "Snippet replaced",
                                occurrences |-> StrCount(content, old_snippet)],
                       fs |-> wt.fs]

\* a variant of the checks that does not hold end against the line count
EditLinesRefusedEndUnchecked(lines, start_line_usr, end_line_usr, new_content_str) ==
    LET num_lines == Len(lines)
        is_insertion == end_line_usr < start_line_usr
        is_deletion == new_content_str = <<>>
        in_range == /\ 1 <= start_line_usr /\ start_line_usr <= num_lines
                    /\ 1 <= end_line_usr
                    /\ start_line_usr <= end_line_usr
    IN  IF is_deletion THEN ~in_range
        ELSE IF is_insertion
             THEN ~(1 <= start_line_usr /\ start_line_usr <= num_lines + 1)
        ELSE /\ ~in_range
             /\ ~(num_lines = 0 /\ start_line_usr = 1 /\ end_line_usr = 1)

\* the line-number checks of _edit_file_lines: TRUE when the call is refused
EditLinesRefused(lines, start_line_usr, end_line_usr, new_content_str) ==
    LET num_lines == Len(lines)
        is_insertion == end_line_usr < start_line_usr
        is_deletion == new_content_str = <<>>
        in_range == /\ 1 <= start_line_usr /\ start_line_usr <= num_lines
                    /\ 1 <= end_line_usr /\ end_line_usr <= num_lines
                    /\ start_line_usr <= end_line_usr
    IN  IF is_deletion THEN ~in_range
        ELSE IF is_insertion
             THEN ~(1 <= start_line_usr /\ start_line_usr <= num_lines + 1)
        ELSE /\ ~in_range
             /\ ~(num_lines = 0 /\ start_line_usr = 1 /\ end_line_usr = 1)
             /\ ~(num_lines = 1 /\ lines = << <<>> >>
                    /\ start_line_usr = 1 /\ end_line_usr = 1)

\* the new line list of _edit_file_lines, for a call that is not refused
EditedLines(lines, start_line_usr, end_line_usr, new_content_str) ==
    LET num_lines == Len(lines)
        is_insertion == end_line_usr < start_line_usr
        is_deletion == new_content_str = <<>>
        s_idx == start_line_usr - 1
        e_idx == end_line_usr - 1
        new_lines == IF new_content_str # <<>> THEN SplitLines(new_content_str) ELSE <<>>
    IN  IF is_deletion
        THEN SubSeq(lines, 1, s_idx) \o SubSeq(lines, e_idx + 2, num_lines)
        ELSE IF is_insertion
        THEN SubSeq(lines, 1, s_idx) \o new_lines \o SubSeq(lines, s_idx + 1, num_lines)
        ELSE IF num_lines = 0 /\ s_idx = 0 THEN new_lines
        ELSE SubSeq(lines, 1, s_idx) \o new_lines \o SubSeq(lines, e_idx + 2, num_lines)

\* the text written back by _edit_file_lines
EditedContent(original_content, start_line_usr, end_line_usr, new_content_str) ==
    LET lines == EditedLines(SplitLines(original_content),
                             start_line_usr, end_line_usr, new_content_str)
        is_deletion == new_content_str = <<>>
        new_lines == IF new_content_str # <<>> THEN SplitLines(new_content_str) ELSE <<>>
        joined == JoinLines(lines)
        with_nl == IF /\ \/ (EndsWithNL(original_content) /\ joined # <<>>)
                         \/ (original_content = <<>> /\ joined # <<>>)
                      /\ ~EndsWithNL(joined)
                   THEN Append(joined, NL)
                   ELSE joined
    IN  IF lines = <<>> /\ new_lines = <<>> /\ is_deletion THEN <<>> ELSE with_nl

\* _edit_file_lines
EditFileLines(f, path, start_line_usr, end_line_usr, new_content_str) ==
    LET sp == SafePath(f, path)
        filepath == sp.path
    IN  IF ~sp.ok THEN Ret("ERR", "Invalid path provided", f)
        ELSE IF ~IsFile(f, filepath) THEN Ret("ERR", "File not found or is not a file", f)
        ELSE LET original_content == f[filepath].content
                 wt == WriteText(f, filepath,
                          EditedContent(original_content, start_line_usr,
                                        end_line_usr, new_content_str))
             IN  IF EditLinesRefused(SplitLines(original_content), start_line_usr,
                                     end_line_usr, new_content_str)
                 THEN Ret("ERR", "Invalid line numbers", f)
                 ELSE IF ~wt.ok THEN Ret("ERR", "Error writing edited content", f)
                 ELSE Ret("OK", IF new_content_str = <<>> THEN "deleted"
                                ELSE IF end_line_usr < start_line_usr THEN "inserted"
                                ELSE "replaced", wt.fs)

\* _list_directory_contents: the names of the immediate children (the
\* listing itself changes nothing)
ListDirectoryContents(f, target_path) ==
    LET sp == SafePath(f, target_path)
        base == sp.path
        items == {q \in DOMAIN f : Len(q) = Len(base) + 1 /\ IsPrefix(base, q)}
    IN  IF ~sp.ok THEN Ret("ERR", "Path not found or invalid", f)
        ELSE IF ~IsDir(f, base) THEN Ret("ERR", "Path is not a directory", f)
        ELSE IF items = {} THEN Ret("INFO", "No items found", f)
        ELSE Ret("LIST", "items", f)

\* the names _list_directory_contents(target_path, recursive=False) shows:
\* os.listdir of the directory (the "/" after a directory's name left out)
ListedItems(f, target_path) ==
    LET sp == SafePath(f, target_path)
        base == sp.path
    IN  IF ~sp.ok \/ ~IsDir(f, base) THEN {}
        ELSE {Last(q) : q \in {r \in DOMAIN f : Len(r) = Len(base) + 1 /\ IsPrefix(base, r)}}

\* an event of the output stream; reason and agent_name are those of a
\* replan_request and empty on the others
Event(type, icon, tag) ==
    [type |-> type, icon |-> icon, tag |-> tag, reason |-> <<>>, agent_name |-> ""]

\* generate_image (with the client configured): api is what the image
\* model returned, "bytes", "nodata" or "raise"; the result is the sequence
\* of events the generator yields.
GenerateImage(f, path, api) ==
    LET sp == SafePath(f, path)
        filepath == sp.path
        mk == MkdirP(f, Parent(filepath))
        wt == WriteText(mk.fs, filepath, <<"i", "m", "g">>)
        intro == <<Event("system", "", "Generating image"), Event("system", "", "Prompt")>>
        failed == Append(intro, Event("error", "ERR", "Image generation failed"))
    IN  IF ~sp.ok THEN [events |-> <<Event("error", "ERR", "Invalid path")>>, fs |-> f]
        ELSE IF api = "raise" THEN [events |-> failed, fs |-> f]
        ELSE IF api = "nodata"
        THEN [events |-> Append(intro, Event("error", "ERR", "No image data received")),
              fs |-> f]
        ELSE IF ~mk.ok THEN [events |-> failed, fs |-> f]
        ELSE IF ~wt.ok THEN [events |-> failed, fs |-> mk.fs]
        ELSE [events |-> intro \o <<Event("system", "OK", "Image generated"),
                                    Event("file_changed", "", "path")>>,
              fs |-> wt.fs]

(***************************************************************************)
(* The workspace under a sequence of operations.                            *)
(***************************************************************************)
MaxOps == 2        \* operations in one run of the workspace specification
MaxClock == 1      \* seconds that may pass

Rel(parts) == [abs |-> FALSE, parts |-> parts]

Abs(parts) == [abs |-> TRUE, parts |-> parts]

A_TXT == <<"a", "txt">>
B_PNG == <<"b", "png">>
SECRET == <<"secret", "txt">>
D == <<"d">>
LNK == <<"lnk">>
ALIAS == <<"alias">>
HOME == <<"home">>
VM == <<"vm">>

Root == CWD \o VM_DIR

\* the workspace at start: a file, a directory with a file, a symbolic
\* link that leaves the workspace, a symbolic link to the directory, and a
\* file outside
InitFS ==
    LET paths == {<<>>, <<HOME>>, <<HOME, SECRET>>, Root, Root \o <<A_TXT>>,
                  Root \o <<D>>, Root \o <<D, A_TXT>>, Root \o <<LNK>>,
                  Root \o <<ALIAS>>}
    IN  [q \in paths |->
            IF q = <<HOME, SECRET>> THEN FileNode(<<"s">>)
            ELSE IF q = Root \o <<A_TXT>> THEN FileNode(<<"a", NL, "a", NL>>)
            ELSE IF q = Root \o <<D, A_TXT>> THEN FileNode(<<"a">>)
            ELSE IF q = Root \o <<LNK>> THEN LinkNode(<<HOME>>)
            ELSE IF q = Root \o <<ALIAS>> THEN LinkNode(Root \o <<D>>)
            ELSE DirNode]

\* path arguments the agents may write
PathArgs ==
    {Rel(<<>>), Rel(<<DOT>>), Rel(<<A_TXT>>), Rel(<<D>>), Rel(<<D, A_TXT>>),
     Rel(<<B_PNG>>), Rel(<<DOTDOT, SECRET>>), Rel(<<LNK, SECRET>>), Rel(<<LNK>>),
     Rel(<<ALIAS>>), Rel(<<DOTDOT>>), Rel(<<TRASH_DIR_NAME, A_TXT>>), Abs(<<HOME, SECRET>>)}

Contents == {<<"a", NL>>, <<"b">>}

ImageReplies == {"bytes", "nodata", "raise"}

\* the part of the filesystem that is not the workspace root or below it
Outside(f) == [q \in {r \in DOMAIN f : ~IsPrefix(Root, r)} |-> f[q]]

IsEmptyString(cand) == ~cand.abs /\ cand.parts = <<>>

\* the candidate names a place that is neither the root nor below it
Escapes(f, cand) ==
    ~IsEmptyString(cand) /\ ~IsPrefix(VmDirResolved(f), Resolve(f, cand))

Refused(events) ==
    \E i \in DOMAIN events : events[i].type = "error" \/ events[i].icon = "ERR"

Yield(r) == <<Event("system", r.res.icon, r.res.tag)>>

\* one operation on the workspace: the filesystem it leaves, and the record
\* of whether a path argument left the workspace, whether it was refused,
\* and how many items it reported as moved to the trash
Apply(name, paths, events, f) ==
    /\ lastOp.n < MaxOps
    /\ fs' = f
    /\ lastOp' = [op |-> name,
                  escapes |-> \E i \in DOMAIN paths : Escapes(fs, paths[i]),
                  refused |-> Refused(events),
                  moved |-> Cardinality({i \in DOMAIN events : events[i].icon = "TRASH"}),
                  n |-> lastOp.n + 1]
    /\ UNCHANGED <<spVars, memVars, cmdVars, runVars, fnVars>>

DoCreate ==
    \E p \in PathArgs, c \in Contents :
        LET r == CreateFile(fs, p, c)
        IN  Apply("create_file", <<p>>, Yield(r), r.fs) /\ UNCHANGED clock

DoWrite ==
    \E p \in PathArgs, c \in Contents :
        LET r == WriteToFile(fs, p, c)
        IN  Apply("write_to_file", <<p>>, Yield(r), r.fs) /\ UNCHANGED clock

DoDelete ==
    \E p \in PathArgs, now \in clock..MaxClock :
        LET r == DeleteFile(fs, p, now)
        IN  Apply("delete_file", <<p>>, Yield(r), r.fs) /\ clock' = now

\* the trashing of the images of an attempt (_handle_retry_and_finalization):
\* the paths are distinct, in the order list(set(...)) gives them
DoMoveToTrash ==
    \E p \in PathArgs, q \in PathArgs, n \in 1..2, now \in clock..MaxClock :
        LET image_paths_to_move == SubSeq(<<p, q>>, 1, n)
            r == MoveToTrash(fs, image_paths_to_move, now)
        IN  /\ p # q
            /\ Apply("move_to_trash", image_paths_to_move,
                     [k \in DOMAIN r.messages |->
                         Event("system", r.messages[k].icon, r.messages[k].tag)], r.fs)
            /\ clock' = now

DoRename ==
    \E p \in PathArgs, q \in PathArgs :
        LET r == RenameFile(fs, p, q)
        IN  Apply("rename_file", <<p, q>>, Yield(r), r.fs) /\ UNCHANGED clock

DoReplaceSnippet ==
    \E p \in PathArgs, old \in {<<"a">>, <<"a", NL>>}, new \in Contents :
        LET r == ReplaceFileSnippet(fs, p, old, new)
        IN  Apply("replace_file_snippet", <<p>>, Yield(r), r.fs) /\ UNCHANGED clock

DoEditLines ==
    \E p \in PathArgs, s \in 1..2, e \in 1..2, new \in {<<>>, <<"b">>} :
        LET r == EditFileLines(fs, p, s, e, new)
        IN  Apply("edit_file_lines", <<p>>, Yield(r), r.fs) /\ UNCHANGED clock

DoListDirectory ==
    \E p \in PathArgs :
        LET r == ListDirectoryContents(fs, p)
        IN  Apply("list_directory_contents", <<p>>, Yield(r), r.fs) /\ UNCHANGED clock

DoGenerateImage ==
    \E p \in PathArgs, api \in ImageReplies :
        LET r == GenerateImage(fs, p, api)
        IN  Apply("generate_image", <<p>>, r.events, r.fs) /\ UNCHANGED clock

\* the request of a replan_request; the Planner not called (called_with is
\* what it is called with and what its model answered)
NoRequest == [reason |-> <<>>, agent_name |-> ""]

NotAsked ==
    [plan_steps |-> <<>>, logs |-> <<>>,
     called_with |-> [called |-> FALSE, user_prompt |-> "", replan_context |-> NoRequest,
                      answer |-> [kind |-> "", parsed_plan |-> <<>>]]]

\* what an agent's run held: a replan signal from a directive, the
\* REQUEST_REPLAN line at the end of its text, a failure of the call of the
\* language model
NoSignal == [directive |-> FALSE, text |-> FALSE, failure |-> FALSE]

\* what a piece of run_enhanced_interaction did: the step it worked on, how
\* the agent ended, the types of the events yielded (status updates left
\* out), the agents invoked, the replan signals the agent's run held, and
\* the call of the Planner
Piece(kind, index, step, outcome, events, invoked, request, planner) ==
    [kind |-> kind, index |-> index, agent_name |-> step.agent_name,
     is_final_step |-> step.is_final_step, outcome |-> outcome, events |-> events,
     invoked |-> invoked, request |-> request, signals |-> NoSignal,
     planner |-> planner.called_with]

NoStep == [agent_name |-> "", instruction |-> <<>>, is_final_step |-> FALSE]

\* no generator is running
NotStreaming ==
    [agent |-> "", chunks |-> <<>>, raises |-> FALSE, got |-> 0, text |-> <<>>,
     collected |-> <<>>, yielded |-> <<>>, parsed |-> <<>>, returned |-> "",
     pc |-> "idle"]

\* the state after construction, the interpreter's part aside
Constructed ==
    /\ fs = InitFS
    /\ clock = 0
    /\ lastOp = [op |-> "none", escapes |-> FALSE, refused |-> FALSE, moved |-> 0, n |-> 0]
    /\ probe = [cand |-> Rel(<<>>), res |-> NoPath, called |-> FALSE]
    /\ journal = <<>>
    /\ appended = 0
    /\ readback = <<>>
    /\ pc = "start"
    /\ plan_steps = <<>>
    /\ step_index = 0
    /\ completed_normally = FALSE
    /\ replan_failed_to_get_new_steps = FALSE
    /\ previous_step_output = "None"
    /\ output_from_completed_step_for_maincoder = "None"
    /\ current_attempt = 0
    /\ replans = 0
    /\ report = ""
    /\ lastStep = Piece("none", 0, NoStep, "", <<>>, <<>>, NoRequest, NotAsked)
    /\ fnCall = [name |-> "none"]
    /\ stream = NotStreaming
    /\ msg_queue = <<>>
    /\ workers = <<>>
    /\ gui = [input |-> "normal", pc |-> "scheduled", handled |-> <<>>, polled |-> 0]
    /\ enqueued = <<>>

NoCmd == [func_name |-> "", process |-> "none", code |-> 0, events |-> <<>>]

InterpreterAtStart ==
    /\ response_text = <<>>
    /\ segments = <<>>
    /\ scan = 0
    /\ out = <<>>
    /\ dispatched = <<>>
    /\ lastCmd = NoCmd
    /\ recent_changes = <<>>
    /\ project_files_changed = TRUE
    /\ user_preferences = <<>>

Init ==
    /\ Constructed
    /\ InterpreterAtStart

NextWorkspace ==
    \/ DoCreate
    \/ DoWrite
    \/ DoDelete
    \/ DoRename
    \/ DoReplaceSnippet
    \/ DoEditLines
    \/ DoListDirectory
    \/ DoGenerateImage

SpecWorkspace == Init /\ [][NextWorkspace]_vars

\* the operations that move items to the trash, and create_file to bring a
\* trashed name back
NextTrash ==
    \/ DoDelete
    \/ DoMoveToTrash
    \/ DoCreate

SpecTrash == Init /\ [][NextTrash]_vars

(***************************************************************************)
(* The text edits on their own: a text is written to a.txt, then edited     *)
(* by line numbers or by snippet.                                           *)
(***************************************************************************)
MaxLines == 5      \* lines of the text written

RECURSIVE SeqsOfLen(_, _)
SeqsOfLen(S, n) ==
    IF n = 0 THEN {<<>>}
    ELSE {Append(q, x) : q \in SeqsOfLen(S, n - 1), x \in S}

\* the texts an agent may write: up to MaxLines lines, each empty, "a" or
\* "b", with or without a final newline
Texts ==
    {JoinLines(ls) \o tail :
        ls \in UNION {SeqsOfLen({<<>>, <<"a">>, <<"b">>}, n) : n \in 0..MaxLines},
        tail \in {<<>>, <<NL>>}}

NewTexts == {<<>>, <<"c">>, <<"c", NL>>, <<"c", NL, "c">>, <<NL>>}

OldSnippets == {<<"a">>, <<"a", NL, "a">>, <<NL, NL>>, <<"c">>}

TextFile == Rel(<<A_TXT>>)

TextOnDisk(f) == f[Root \o <<A_TXT>>].content

PutText ==
    /\ fnCall.name = "none"
    /\ \E content \in Texts :
          /\ fs' = WriteToFile(fs, TextFile, content).fs
          /\ fnCall' = [name |-> "write_to_file"]
    /\ UNCHANGED <<clock, lastOp, spVars, memVars, cmdVars, runVars, stream, guiVars>>

CallEditFileLines ==
    /\ fnCall.name = "write_to_file"
    /\ \E start_line_usr \in 0..(MaxLines + 1), end_line_usr \in 0..(MaxLines + 1),
          new_content_str \in NewTexts :
          LET r == EditFileLines(fs, TextFile, start_line_usr, end_line_usr,
                                 new_content_str)
          IN  /\ fs' = r.fs
              /\ fnCall' = [name |-> "edit_file_lines",
                            original_content |-> TextOnDisk(fs),
                            start_line_usr |-> start_line_usr,
                            end_line_usr |-> end_line_usr,
                            new_content_str |-> new_content_str,
                            res |-> r.res]
    /\ UNCHANGED <<clock, lastOp, spVars, memVars, cmdVars, runVars, stream, guiVars>>

CallReplaceFileSnippet ==
    /\ fnCall.name = "write_to_file"
    /\ \E old_snippet \in OldSnippets, new_snippet \in {<<>>, <<"a">>, <<"c", "a">>} :
          LET r == ReplaceFileSnippet(fs, TextFile, old_snippet, new_snippet)
          IN  /\ fs' = r.fs
              /\ fnCall' = [name |-> "replace_file_snippet",
                            original_content |-> TextOnDisk(fs),
                            old_snippet |-> old_snippet,
                            new_snippet |-> new_snippet,
                            res |-> r.res]
    /\ UNCHANGED <<clock, lastOp, spVars, memVars, cmdVars, runVars, stream, guiVars>>

NextText ==
    \/ PutText
    \/ CallEditFileLines
    \/ CallReplaceFileSnippet

SpecText == Init /\ [][NextText]_vars

(***************************************************************************)
(* _safe_path on its own: one call on a candidate, in a workspace.          *)
(***************************************************************************)
MaxParts == 3      \* names in a candidate path

RECURSIVE SeqsUpTo(_, _)
SeqsUpTo(S, n) ==
    IF n = 0 THEN {<<>>}
    ELSE LET shorter == SeqsUpTo(S, n - 1)
         IN  shorter \cup {Append(q, x) : q \in shorter, x \in S}

Candidates ==
    {[abs |-> a, parts |-> ps] : a \in BOOLEAN, ps \in SeqsUpTo({DOT, DOTDOT, A_TXT, D, LNK, HOME, VM, SECRET}, MaxParts)}

CallSafePath ==
    /\ ~probe.called
    /\ \E c \in Candidates :
          probe' = [cand |-> c, res |-> SafePath(fs, c), called |-> TRUE]
    /\ UNCHANGED <<wsVars, memVars, cmdVars, runVars, fnVars>>

NextSafePath == CallSafePath

SpecSafePath == Init /\ [][NextSafePath]_vars

(***************************************************************************)
(* The memory journal.  A line of the file is [head, prio, chars, id]:      *)
(* head says that the line starts with "[timestamp] [Pn]" (what the         *)
(* pruning pass looks for), prio is n, chars is the length of the line      *)
(* with its newline, id is the _log_to_memory call that wrote it (0 for     *)
(* the pruning notice).  A content is the sequence of the lengths of its    *)
(* lines: a content without a newline is one length.                        *)
(***************************************************************************)
MAX_HIGH_PRIORITY_TOKENS == 10000
HIGH_PRIORITY_THRESHOLD == 2
CHARS_PER_TOKEN == 4
TIMESTAMP_CHARS == 19          \* "%Y-%m-%d %H:%M:%S"
PRUNING_NOTICE_PRIORITY == 3

MaxAppends == 3    \* _log_to_memory calls in one run of the journal specification

\* _estimate_token_count, of a text of the given length
EstimateTokenCount(chars) == chars \div CHARS_PER_TOKEN

\* the length of "[timestamp] [Pn] [CATEGORY] "
HeaderChars(category, priority) ==
    (TIMESTAMP_CHARS + 3) + (Len(ToString(priority)) + 4) + (Len(category) + 3)

\* log_entry as the file's lines: the first carries the header, a newline
\* in the content starts a line of its own
FormatEntry(id, category, content, priority) ==
    [k \in 1..Len(content) |->
        IF k = 1
        THEN [head |-> TRUE, prio |-> priority, id |-> id,
              chars |-> HeaderChars(category, priority) + content[1] + 1]
        ELSE [head |-> FALSE, prio |-> priority, id |-> id,
              chars |-> content[k] + 1]]

\* re.match(r"\[(.*?)\] \[P(\d+)\]", line) and priority_val <= threshold
IsHighPriorityLine(line) == line.head /\ line.prio <= HIGH_PRIORITY_THRESHOLD

RECURSIVE SumTokens(_, _)
SumTokens(lines, k) ==
    IF k = 0 THEN 0
    ELSE SumTokens(lines, k - 1)
         + (IF IsHighPriorityLine(lines[k]) THEN EstimateTokenCount(lines[k].chars) ELSE 0)

\* the loop over high_priority_lines_indices, oldest first: the indices to
\* delete, from line k on, with tokens_to_remove still to go
RECURSIVE IndicesToDelete(_, _, _)
IndicesToDelete(lines, k, tokens_to_remove) ==
    IF k > Len(lines) \/ tokens_to_remove <= 0 THEN {}
    ELSE IF IsHighPriorityLine(lines[k])
         THEN {k} \cup IndicesToDelete(lines, k + 1,
                          tokens_to_remove - EstimateTokenCount(lines[k].chars))
         ELSE IndicesToDelete(lines, k + 1, tokens_to_remove)

RECURSIVE Keep(_, _, _)
Keep(lines, k, del) ==
    IF k > Len(lines) THEN <<>>
    ELSE (IF k \in del THEN <<>> ELSE <<lines[k]>>) \o Keep(lines, k + 1, del)

\* the line "[timestamp] [P3] [SYSTEM_EVENT] Auto-pruned n high-priority
\* memory entries to manage size (limit: 10000 tokens)."
PruningNotice(removed_count) ==
    [head |-> TRUE, prio |-> PRUNING_NOTICE_PRIORITY, id |-> 0,
     chars |-> HeaderChars("SYSTEM_EVENT", PRUNING_NOTICE_PRIORITY)
               + 79 + Len(ToString(removed_count)) + 1]

\* the pruning pass of _log_to_memory on the lines read back
Prune(lines) ==
    LET current_high_priority_tokens == SumTokens(lines, Len(lines))
        del == IndicesToDelete(lines, 1,
                   current_high_priority_tokens - MAX_HIGH_PRIORITY_TOKENS)
    IN  IF current_high_priority_tokens > MAX_HIGH_PRIORITY_TOKENS /\ del # {}
        THEN Append(Keep(lines, 1, del), PruningNotice(Cardinality(del)))
        ELSE lines

\* _log_to_memory, from the append to the end of the pruning pass
LogToMemoryLines(lines, id, category, content, priority) ==
    Prune(lines \o FormatEntry(id, category, content, priority))

\* contents: short, half the budget, just under the budget, over the
\* budget in one line, and two lines of which the second is over the budget
JournalContents == {<<20>>, <<20000>>, <<39900>>, <<41000>>, <<20, 41000>>}

LogToMemory ==
    /\ appended < MaxAppends
    /\ \E category \in {"ERROR", "COMMAND_ERROR"}, content \in JournalContents,
          priority \in 1..3 :
          /\ journal' = LogToMemoryLines(journal, appended + 1, category, content,
                                         priority)
          /\ readback' = journal \o FormatEntry(appended + 1, category, content, priority)
    /\ appended' = appended + 1
    /\ UNCHANGED <<wsVars, spVars, cmdVars, runVars, fnVars>>

NextJournal == LogToMemory

SpecJournal == Init /\ [][NextJournal]_vars

(***************************************************************************)
(* _log_to_memory called from two threads: the worker thread of a request   *)
(* logs during its run, the main thread logs through clear_memory_file      *)
(* (the Clear Memories command of the window).  A step of a thread is a     *)
(* read or a write of the attribute _logging_memory or one operation on     *)
(* the file; the threads' steps interleave in any order.                    *)
(***************************************************************************)
MaxThreadCalls == 2    \* calls of a thread in one run of the specification

Threads == {"worker", "ui"}

NoEntry == [id |-> 0, category |-> "", content |-> <<>>, priority |-> 0]

\* the locals of a thread in _log_to_memory: where it stands, the entry it
\* logs, the lines it read back, the calls it made
ThreadAtStart == [at |-> "idle", entry |-> NoEntry, lines |-> <<>>, calls |-> 0]

Ids(lines) == {lines[k].id : k \in DOMAIN lines}

\* the threads run: _logging_memory is not set yet (hasattr is false).
\* dropped: the calls that returned at the test of the attribute; lost: the
\* lines of the file that a rewrite removed without having read them
ThreadsStart ==
    /\ fnCall.name = "none"
    /\ fnCall' = [name |-> "threads", logging_memory |-> FALSE,
                  thread |-> [t \in Threads |-> ThreadAtStart],
                  dropped |-> {}, lost |-> {}]
    /\ UNCHANGED <<wsVars, spVars, memVars, cmdVars, runVars, stream, guiVars>>

InThreads(t, at) == fnCall.name = "threads" /\ fnCall.thread[t].at = at

JournalLeft == UNCHANGED <<journal, readback, appended>>

OthersLeft == UNCHANGED <<wsVars, spVars, cmdVars, runVars, stream, guiVars>>

\* the worker thread calls _log_to_memory
WorkerLogs ==
    /\ InThreads("worker", "idle")
    /\ fnCall.thread["worker"].calls < MaxThreadCalls
    /\ \E content \in {<<20>>, <<41000>>} :
          fnCall' = [fnCall EXCEPT
                        !.thread["worker"].at = "test",
                        !.thread["worker"].calls = @ + 1,
                        !.thread["worker"].entry =
                            [id |-> appended + 1, category |-> "COMMAND_ERROR",
                             content |-> content, priority |-> 1]]
    /\ appended' = appended + 1
    /\ UNCHANGED <<journal, readback>>
    /\ OthersLeft

\* clear_memory_file on the main thread: the file is unlinked, then the
\* clearing is logged
ClearMemoryFile ==
    /\ InThreads("ui", "idle")
    /\ fnCall.thread["ui"].calls < MaxThreadCalls
    /\ fnCall' = [fnCall EXCEPT
                     !.thread["ui"].at = "test",
                     !.thread["ui"].calls = @ + 1,
                     !.thread["ui"].entry =
                         [id |-> appended + 1, category |-> "SYSTEM_EVENT",
                          content |-> <<35>>, priority |-> 3]]
    /\ journal' = <<>>
    /\ appended' = appended + 1
    /\ UNCHANGED readback
    /\ OthersLeft

\* "if hasattr(self, '_logging_memory') and self._logging_memory: return"
TestLoggingMemory(t) ==
    /\ InThreads(t, "test")
    /\ fnCall' = IF fnCall.logging_memory
                 THEN [fnCall EXCEPT !.thread[t].at = "idle",
                                     !.dropped = @ \cup {fnCall.thread[t].entry.id}]
                 ELSE [fnCall EXCEPT !.thread[t].at = "set"]
    /\ JournalLeft
    /\ OthersLeft

\* "self._logging_memory = True"
SetLoggingMemory(t) ==
    /\ InThreads(t, "set")
    /\ fnCall' = [fnCall EXCEPT !.logging_memory = TRUE, !.thread[t].at = "append"]
    /\ JournalLeft
    /\ OthersLeft

\* the entry is appended to the file
AppendEntry(t) ==
    /\ InThreads(t, "append")
    /\ \E e \in {fnCall.thread[t].entry} :
          journal' = journal \o FormatEntry(e.id, e.category, e.content, e.priority)
    /\ fnCall' = [fnCall EXCEPT !.thread[t].at = "read"]
    /\ UNCHANGED <<readback, appended>>
    /\ OthersLeft

\* the file is read back; an empty or missing file ends the pass
ReadLines(t) ==
    /\ InThreads(t, "read")
    /\ fnCall' = [fnCall EXCEPT !.thread[t].lines = journal,
                                !.thread[t].at = IF journal = <<>> THEN "finally"
                                                 ELSE "prune"]
    /\ readback' = journal
    /\ UNCHANGED <<journal, appended>>
    /\ OthersLeft

\* the indices the pruning pass deletes from the lines read
ToDelete(lines) ==
    IF SumTokens(lines, Len(lines)) > MAX_HIGH_PRIORITY_TOKENS
    THEN IndicesToDelete(lines, 1,
                         SumTokens(lines, Len(lines)) - MAX_HIGH_PRIORITY_TOKENS)
    ELSE {}

\* over the budget the file is rewritten with the lines kept of those read
RewriteLines(t) ==
    /\ InThreads(t, "prune")
    /\ \E lines \in {fnCall.thread[t].lines} :
          IF ToDelete(lines) # {}
          THEN /\ journal' = Keep(lines, 1, ToDelete(lines))
               /\ fnCall' = [fnCall EXCEPT !.thread[t].at = "notice",
                                           !.lost = @ \cup (Ids(journal) \ Ids(lines))]
          ELSE /\ journal' = journal
               /\ fnCall' = [fnCall EXCEPT !.thread[t].at = "finally"]
    /\ UNCHANGED <<readback, appended>>
    /\ OthersLeft

\* the notice of the pruning is appended
AppendNotice(t) ==
    /\ InThreads(t, "notice")
    /\ journal' = Append(journal,
                         PruningNotice(Cardinality(ToDelete(fnCall.thread[t].lines))))
    /\ fnCall' = [fnCall EXCEPT !.thread[t].at = "finally"]
    /\ UNCHANGED <<readback, appended>>
    /\ OthersLeft

\* "finally: self._logging_memory = False"
ResetLoggingMemory(t) ==
    /\ InThreads(t, "finally")
    /\ fnCall' = [fnCall EXCEPT !.logging_memory = FALSE, !.thread[t].at = "idle"]
    /\ JournalLeft
    /\ OthersLeft

NextJournalThreads ==
    \/ ThreadsStart
    \/ WorkerLogs
    \/ ClearMemoryFile
    \/ \E t \in Threads : TestLoggingMemory(t)
    \/ \E t \in Threads : SetLoggingMemory(t)
    \/ \E t \in Threads : AppendEntry(t)
    \/ \E t \in Threads : ReadLines(t)
    \/ \E t \in Threads : RewriteLines(t)
    \/ \E t \in Threads : AppendNotice(t)
    \/ \E t \in Threads : ResetLoggingMemory(t)

SpecJournalThreads == Init /\ [][NextJournalThreads]_vars

(***************************************************************************)
(* The directive interpreter, _process_enhanced_commands.  A text is a      *)
(* sequence of tokens: the backtick, the parentheses, the comma, a blank,   *)
(* "+", identifiers, string literals, and "?" for prose that is no Python.  *)
(***************************************************************************)
BT == "BACKTICK"
LP == "("
RP == ")"
COMMA == ","
WS == " "
PLUS == "+"
PROSE == "?"

\* self.command_handlers.keys()
KnownCommands ==
    {"create_file", "write_to_file", "delete_file", "run_command", "generate_image",
     "rename_file", "set_user_preference", "get_user_preference",
     "list_directory_contents", "replace_file_snippet", "edit_file_lines"}

\* the tokens that [a-zA-Z_][\w\.]* matches
IdentifierTokens == KnownCommands \cup {"foo", "path"}

\* CHECK_MARK stands for the character U+2705 of the handlers' messages
CHECK_MARK == "{OK}"

StringLiterals == {"'a.txt'", "'b.png'", "'x'", "'ls'", "' '", "''", "'{OK}'"}

\* the str a literal evaluates to, read as a path
PathOf(tok) ==
    CASE tok = "'a.txt'" -> Rel(<<A_TXT>>)
      [] tok = "'b.png'" -> Rel(<<B_PNG>>)
      [] tok = "'x'" -> Rel(<< <<"x">> >>)
      [] tok = "'ls'" -> Rel(<< <<"ls">> >>)
      [] tok = "' '" -> Rel(<< <<" ">> >>)
      [] tok = "''" -> Rel(<<>>)
      [] tok = "'{OK}'" -> Rel(<< <<CHECK_MARK>> >>)

\* the str a literal evaluates to, read as text
TextOf(tok) ==
    CASE tok = "'a.txt'" -> <<"a", ".", "t", "x", "t">>
      [] tok = "'b.png'" -> <<"b", ".", "p", "n", "g">>
      [] tok = "'x'" -> <<"x">>
      [] tok = "'ls'" -> <<"l", "s">>
      [] tok = "' '" -> <<" ">>
      [] tok = "''" -> <<>>
      [] tok = "'{OK}'" -> <<CHECK_MARK>>

RECURSIVE SkipWS(_, _)
SkipWS(t, k) == IF k <= Len(t) /\ t[k] = WS THEN SkipWS(t, k + 1) ELSE k

NoMatch == [ok |-> FALSE, from |-> 0, to |-> 0, next |-> 0]

\* command_pattern matched with its opening backtick at s: group 1 is
\* t[from..to], the scan goes on at next.  ".*?" is lazy and DOTALL: the
\* group ends at the first ")" that blanks and a backtick follow.
MatchAt(t, s) ==
    LET n == SkipWS(t, s + 1)
        l == SkipWS(t, n + 1)
        ClosedAt(e) == /\ t[e] = RP
                       /\ SkipWS(t, e + 1) <= Len(t)
                       /\ t[SkipWS(t, e + 1)] = BT
        ends == {e \in (l + 1)..Len(t) : ClosedAt(e)}
        first == CHOOSE e \in ends : \A y \in ends : e <= y
    IN  IF /\ s <= Len(t) /\ t[s] = BT
           /\ n <= Len(t) /\ t[n] \in IdentifierTokens
           /\ l <= Len(t) /\ t[l] = LP
           /\ ends # {}
        THEN [ok |-> TRUE, from |-> n, to |-> first, next |-> SkipWS(t, first + 1) + 1]
        ELSE NoMatch

\* the next item of command_pattern.finditer from position pos
RECURSIVE NextMatch(_, _)
NextMatch(t, pos) ==
    IF pos > Len(t) THEN NoMatch
    ELSE IF MatchAt(t, pos).ok THEN MatchAt(t, pos)
    ELSE NextMatch(t, pos + 1)

\* any(command_str.startswith(known_cmd + "(") ...)
StartsWithKnownCommand(command_str) ==
    /\ Len(command_str) >= 2
    /\ command_str[1] \in KnownCommands
    /\ command_str[2] = LP

RECURSIVE Depth(_, _)
Depth(p, k) ==
    IF k <= 1 THEN 0
    ELSE Depth(p, k - 1) + (IF p[k - 1] = LP THEN 1 ELSE IF p[k - 1] = RP THEN -1 ELSE 0)

\* the index of the ")" that closes the "(" at k, 0 if there is none
MatchingRP(p, k) ==
    LET closes == {e \in (k + 1)..Len(p) : p[e] = RP /\ Depth(p, e) = Depth(p, k) + 1}
    IN  IF closes = {} THEN 0 ELSE CHOOSE e \in closes : \A y \in closes : e <= y

TopLevel(p, tok) == {k \in 1..Len(p) : p[k] = tok /\ Depth(p, k) = 0}

RECURSIVE ValidExpr(_), ValidArgs(_)
ValidExpr(p) ==
    /\ Len(p) >= 1
    /\ \/ Len(p) = 1 /\ p[1] \in IdentifierTokens \cup StringLiterals
       \/ \E k \in TopLevel(p, PLUS) :
             ValidExpr(SubSeq(p, 1, k - 1)) /\ ValidExpr(SubSeq(p, k + 1, Len(p)))
       \/ p[1] = LP /\ MatchingRP(p, 1) = Len(p) /\ ValidExpr(SubSeq(p, 2, Len(p) - 1))
       \/ \E k \in TopLevel(p, LP) :
             /\ k > 1
             /\ MatchingRP(p, k) = Len(p)
             /\ ValidExpr(SubSeq(p, 1, k - 1))
             /\ ValidArgs(SubSeq(p, k + 1, Len(p) - 1))

ValidArgs(p) ==
    \/ p = <<>>
    \/ ValidExpr(p)
    \/ \E k \in TopLevel(p, COMMA) :
          ValidExpr(SubSeq(p, 1, k - 1)) /\ ValidArgs(SubSeq(p, k + 1, Len(p)))

\* call_node.args, each argument as its tokens
RECURSIVE SplitArgs(_)
SplitArgs(p) ==
    LET commas == TopLevel(p, COMMA)
        k == CHOOSE c \in commas : \A y \in commas : c <= y
    IN  IF p = <<>> THEN <<>>
        ELSE IF commas = {} THEN <<p>>
        ELSE <<SubSeq(p, 1, k - 1)>> \o SplitArgs(SubSeq(p, k + 1, Len(p)))

\* the node ast.parse returns: "SyntaxError" when it raises, "Call" with
\* func_is_name and args, or "Other" for an expression that is no call
AstParse(command_str) ==
    LET p == SelectSeq(command_str, LAMBDA x : x # WS)
        opens == {k \in TopLevel(p, LP) : k > 1 /\ MatchingRP(p, k) = Len(p)}
        k == CHOOSE o \in opens : TRUE
        none == [node |-> "SyntaxError", func_is_name |-> FALSE, id |-> "", args |-> <<>>]
    IN  IF ~ValidExpr(p) THEN none
        ELSE IF TopLevel(p, PLUS) # {} \/ opens = {} THEN [none EXCEPT !.node = "Other"]
        ELSE [node |-> "Call",
              func_is_name |-> k = 2 /\ p[1] \in IdentifierTokens,
              id |-> IF k = 2 THEN p[1] ELSE "",
              args |-> SplitArgs(SubSeq(p, k + 1, Len(p) - 1))]

\* a variant of the evaluation that lets a name stand for a text
LiteralEvalNames(arg) ==
    IF Len(arg) = 1 /\ arg[1] \in StringLiterals THEN [ok |-> TRUE, value |-> arg[1]]
    ELSE IF Len(arg) = 1 /\ arg[1] \in IdentifierTokens THEN [ok |-> TRUE, value |-> "'x'"]
    ELSE [ok |-> FALSE, value |-> ""]

\* ast.literal_eval(arg_node): the literal, or ValueError
RECURSIVE LiteralEval(_)
LiteralEval(arg) ==
    IF Len(arg) = 1 /\ arg[1] \in StringLiterals THEN [ok |-> TRUE, value |-> arg[1]]
    ELSE IF Len(arg) >= 3 /\ arg[1] = LP /\ MatchingRP(arg, 1) = Len(arg)
    THEN LiteralEval(SubSeq(arg, 2, Len(arg) - 1))
    ELSE [ok |-> FALSE, value |-> ""]

(***************************************************************************)
(* The handlers as the interpreter calls them, with the literals' values.   *)
(***************************************************************************)
COMMAND_TIMEOUT_SECONDS == 120
RECENT_CHANGES_KEPT == 20

\* what the external process of run_command does: it exits with a code,
\* runs into the timeout, or cannot be launched
RunOutcomes ==
    {[kind |-> "exit", code |-> 0], [kind |-> "exit", code |-> 1],
     [kind |-> "exit", code |-> 2], [kind |-> "timeout", code |-> 0],
     [kind |-> "launch", code |-> 0]}

\* a _log_to_memory call: the content is the lengths of its lines
Log(category, chars, priority) ==
    [category |-> category, content |-> <<chars>>, priority |-> priority]

RECURSIVE Chars(_)
Chars(toks) ==
    IF toks = <<>> THEN 0
    ELSE (IF Head(toks) = BT THEN 1 ELSE Len(Head(toks))) + Chars(Tail(toks))

RunCommandPlainError(command, outcome) ==
    [status |-> "str", icon |-> "ERR", tag |-> "Command failed", reason |-> <<>>,
     logs |-> <<>>, process |-> outcome.kind, code |-> outcome.code]

\* _run_command: a str, or the dict with status REPLAN_REQUESTED and its
\* reason (the pieces of the f-string); process tells whether one was run
RunCommand(command, outcome) ==
    LET text == TextOf(command)
        Str(icon, tag, process) ==
            [status |-> "str", icon |-> icon, tag |-> tag, reason |-> <<>>,
             logs |-> <<>>, process |-> process, code |-> outcome.code]
        Replan(reason, chars) ==
            [status |-> "REPLAN_REQUESTED", icon |-> "", tag |-> "", reason |-> reason,
             logs |-> <<Log("COMMAND_ERROR", chars, 1)>>,
             process |-> outcome.kind, code |-> outcome.code]
    IN  IF text = <<>> THEN Str("ERR", "No command provided", "none")
        ELSE IF \A k \in DOMAIN text : text[k] = " "
        THEN Str("ERR", "Empty command provided", "none")
        ELSE IF outcome.kind = "launch"
        THEN Replan(<<"Command execution error for '", command, "': ", "exception">>,
                    32 + Len(text))
        ELSE IF outcome.kind = "timeout"
        THEN Replan(<<"The command '", command, "' timed out after ",
                      ToString(COMMAND_TIMEOUT_SECONDS), " seconds.">>,
                    43 + Len(text))
        ELSE IF outcome.code = 0
        THEN Str("OK", "Command completed successfully", "exit")
        ELSE Replan(<<"The command '", command, "' failed with exit code ",
                      ToString(outcome.code), ". Stderr: ", "stderr">>,
                    47 + Len(text) + Len(ToString(outcome.code)))

\* _set_user_preference (key and value are str); save_user_preferences
\* opens the file for writing, which follows a link, and prints a failure
SetUserPreference(f, prefs, key, value) ==
    [res |-> Res("OK", "Preference saved"),
     fs |-> WriteText(f, Resolve(f, Rel(<< <<"user_preferences", "json">> >>)),
                     <<"j", "s", "o", "n">>).fs,
     prefs |-> [k \in DOMAIN prefs \cup {key} |-> IF k = key THEN value ELSE prefs[k]],
     logs |-> <<Log("USER_PREF", 19 + Len(TextOf(key)) + Len(TextOf(value)), 3)>>]

\* _get_user_preference
GetUserPreference(prefs, key) ==
    IF key \in DOMAIN prefs THEN Res("INFO", "Value of preference")
    ELSE Res("INFO", "Preference not found")

\* _edit_file_lines with line numbers that are str
EditFileLinesNotInt(f, path) ==
    LET sp == SafePath(f, path)
    IN  IF ~sp.ok THEN Ret("ERR", "Invalid path provided", f)
        ELSE IF ~IsFile(f, sp.path) THEN Ret("ERR", "File not found or is not a file", f)
        ELSE Ret("ERR", "Line numbers must be integers", f)

\* the numbers of positional arguments the handler's signature takes
Arity(func_name) ==
    CASE func_name = "create_file" -> 1..2
      [] func_name = "write_to_file" -> {2}
      [] func_name = "delete_file" -> {1}
      [] func_name = "run_command" -> {1}
      [] func_name = "generate_image" -> {2}
      [] func_name = "rename_file" -> {2}
      [] func_name = "set_user_preference" -> {2}
      [] func_name = "get_user_preference" -> {1}
      [] func_name = "list_directory_contents" -> 0..2
      [] func_name = "replace_file_snippet" -> {3}
      [] func_name = "edit_file_lines" -> {4}

NoResult ==
    [raised |-> FALSE, result |-> Res("", ""), events |-> <<>>, logs |-> <<>>,
     status |-> "str", reason |-> <<>>, process |-> "none", code |-> 0]

\* what a handler that returns a str leaves
Returned(r, prefs) ==
    [NoResult EXCEPT !.result = Res(r.res.icon, r.res.tag)] @@ [fs |-> r.fs, prefs |-> prefs]

\* what generate_image leaves, its generator run to the end
Generated(img, prefs) ==
    [NoResult EXCEPT
        !.events = img.events,
        !.logs = IF \E k \in DOMAIN img.events :
                       img.events[k].tag = "Image generation failed"
                 THEN <<Log("IMAGE_GEN_ERROR", 27, 2)>>
                 ELSE <<>>] @@ [fs |-> img.fs, prefs |-> prefs]

\* what run_command leaves
Ran(run, f, prefs) ==
    [NoResult EXCEPT !.result = Res(run.icon, run.tag), !.status = run.status,
                     !.reason = run.reason, !.logs = run.logs,
                     !.process = run.process, !.code = run.code]
        @@ [fs |-> f, prefs |-> prefs]

\* what set_user_preference leaves
Saved(set) ==
    [NoResult EXCEPT !.result = set.res, !.logs = set.logs]
        @@ [fs |-> set.fs, prefs |-> set.prefs]

\* self.command_handlers[func_name](*args): raised is the TypeError of a
\* call that does not fit the signature
Invoke(f, prefs, func_name, args, outcome, api, now) ==
    LET n == Len(args)
    IN  IF n \notin Arity(func_name)
        THEN [NoResult EXCEPT !.raised = TRUE] @@ [fs |-> f, prefs |-> prefs]
        ELSE CASE func_name = "create_file" ->
                    Returned(CreateFile(f, PathOf(args[1]),
                                        IF n = 2 THEN TextOf(args[2]) ELSE <<>>), prefs)
               [] func_name = "write_to_file" ->
                    Returned(WriteToFile(f, PathOf(args[1]), TextOf(args[2])), prefs)
               [] func_name = "delete_file" ->
                    Returned(DeleteFile(f, PathOf(args[1]), now), prefs)
               [] func_name = "rename_file" ->
                    Returned(RenameFile(f, PathOf(args[1]), PathOf(args[2])), prefs)
               [] func_name = "list_directory_contents" ->
                    Returned(ListDirectoryContents(f, IF n = 0 THEN Rel(<<DOT>>)
                                                      ELSE PathOf(args[1])), prefs)
               [] func_name = "replace_file_snippet" ->
                    Returned(ReplaceFileSnippet(f, PathOf(args[1]), TextOf(args[2]),
                                                TextOf(args[3])), prefs)
               [] func_name = "edit_file_lines" ->
                    Returned(EditFileLinesNotInt(f, PathOf(args[1])), prefs)
               [] func_name = "set_user_preference" ->
                    Saved(SetUserPreference(f, prefs, args[1], args[2]))
               [] func_name = "get_user_preference" ->
                    Returned([res |-> GetUserPreference(prefs, args[1]), fs |-> f], prefs)
               [] func_name = "generate_image" ->
                    Generated(GenerateImage(f, PathOf(args[1]), api), prefs)
               [] func_name = "run_command" ->
                    Ran(RunCommand(args[1], outcome), f, prefs)

ReplanRequest(reason, agent_name) ==
    [type |-> "replan_request", icon |-> "", tag |-> "", reason |-> reason,
     agent_name |-> agent_name]

\* what one match leaves when nothing was called: the events and the
\* _log_to_memory calls
NotCalled(f, prefs, events, logs) ==
    [events |-> events, fs |-> f, prefs |-> prefs, called |-> <<>>, changes |-> <<>>,
     logs |-> logs, process |-> "none", code |-> 0]

\* the arguments that the str a handler returns repeats (f-strings with
\* {path}, {path_str}, {old_path_str}, {new_path_str})
Echoed(func_name, args, result) ==
    CASE func_name \in {"create_file", "write_to_file"} -> {args[1]}
      [] func_name = "delete_file" ->
            IF result.tag = "Error creating trash directory" THEN {} ELSE {args[1]}
      [] func_name = "rename_file" ->
            IF result.tag = "Invalid new path" THEN {args[2]}
            ELSE IF result.tag = "Renamed" THEN {args[1], args[2]}
            ELSE {args[1]}
      [] OTHER -> {}

\* mark in string_result_from_command: the str begins with the mark of its
\* icon and repeats arguments; OK is the check mark
InResult(mark, func_name, args, result) ==
    \/ result.icon = mark
    \/ mark = "OK" /\ \E a \in Echoed(func_name, args, result) :
                         \E k \in DOMAIN TextOf(a) : TextOf(a)[k] = CHECK_MARK

\* the part of the loop body that follows the call of the handler, r being
\* what the handler left
AfterCall(f, prefs, command_str, func_name, args, r) ==
    LET is_successful_operation ==
            \/ func_name = "delete_file" /\ InResult("TRASH", func_name, args, r.result)
            \/ /\ func_name \in {"create_file", "write_to_file", "rename_file",
                                 "set_user_preference", "get_user_preference",
                                 "list_directory_contents"}
               /\ \/ InResult("OK", func_name, args, r.result)
                  \/ InResult("INFO", func_name, args, r.result)
        changed ==
            IF func_name = "generate_image"
            THEN \E k \in DOMAIN r.events : r.events[k].type = "file_changed"
            ELSE /\ is_successful_operation
                 /\ func_name \in {"create_file", "write_to_file", "delete_file",
                                   "rename_file"}
        events ==
            IF func_name = "generate_image" THEN r.events
            ELSE IF func_name = "run_command"
            THEN IF r.status = "REPLAN_REQUESTED"
                 THEN <<ReplanRequest(r.reason, "MainCoder")>>
                 ELSE <<Event("system", r.result.icon, r.result.tag)>>
            ELSE <<Event("system", r.result.icon, r.result.tag)>>
                 \o (IF changed THEN <<Event("file_changed", "", "path")>> ELSE <<>>)
        logs ==
            r.logs \o (IF func_name = "run_command" /\ r.status = "str"
                       THEN <<Log("COMMAND_SUCCESS", 18 + Len(TextOf(args[1])), 5)>>
                       ELSE <<>>)
    IN  IF r.raised
        THEN NotCalled(f, prefs,
                       <<Event("error", "ERR", "Unexpected error processing command")>>,
                       <<Log("ERROR", 61 + Chars(command_str), 1)>>)
        ELSE [events |-> events, fs |-> r.fs, prefs |-> r.prefs,
              called |-> <<[func_name |-> func_name, args |-> args]>>,
              changes |-> IF changed
                          THEN <<[command |-> func_name, args |-> args]>>
                          ELSE <<>>,
              logs |-> logs, process |-> r.process, code |-> r.code]

\* the literals of the arguments, once all of them are known to be literals
Values(evals) == [k \in DOMAIN evals |-> evals[k].value]

\* the body of the loop of _process_enhanced_commands for one match
ProcessCommand(f, prefs, command_str, outcome, api, now) ==
    LET node == AstParse(command_str)
        evals == [k \in DOMAIN node.args |-> LiteralEval(node.args[k])]
        Only(ev) == NotCalled(f, prefs, <<ev>>, <<>>)
        Logged(ev, chars) ==
            NotCalled(f, prefs, <<ev>>, <<Log("ERROR", chars + Chars(command_str), 1)>>)
    IN  IF ~StartsWithKnownCommand(command_str)
        THEN Only(Event("system", "INFO", "Ignoring potential command-like text"))
        ELSE IF node.node = "SyntaxError"
        THEN Logged(Event("error", "ERR", "Command syntax error"), 49)
        ELSE IF node.node # "Call"
        THEN Only(Event("error", "ERR", "Not a function call"))
        ELSE IF ~node.func_is_name
        THEN Only(Event("error", "ERR", "Not a direct function name"))
        ELSE IF node.id \notin KnownCommands
        THEN Only(Event("error", "ERR", "Unknown command"))
        ELSE IF \E k \in DOMAIN evals : ~evals[k].ok
        THEN Logged(Event("error", "ERR", "Invalid argument"), 71)
        ELSE AfterCall(f, prefs, command_str, node.id, Values(evals),
                       Invoke(f, prefs, node.id, Values(evals), outcome, api, now))

\* the journal after the _log_to_memory calls of one command
RECURSIVE AfterLogs(_, _, _)
AfterLogs(lines, id, logs) ==
    IF logs = <<>> THEN lines
    ELSE AfterLogs(LogToMemoryLines(lines, id, Head(logs).category, Head(logs).content,
                                    Head(logs).priority),
                   id + 1, Tail(logs))

\* the lines the pruning pass of the last of the calls reads back
ReadBack(read, lines, id, logs) ==
    IF logs = <<>> THEN read
    ELSE AfterLogs(lines, id, Front(logs))
         \o FormatEntry(id + Len(logs) - 1, Last(logs).category, Last(logs).content,
                        Last(logs).priority)

\* project_context["recent_changes"][-20:]
LastKept(changes) ==
    IF Len(changes) <= RECENT_CHANGES_KEPT THEN changes
    ELSE SubSeq(changes, Len(changes) - RECENT_CHANGES_KEPT + 1, Len(changes))

(***************************************************************************)
(* The interpreter on texts written from candidates.  A candidate is a      *)
(* backticked span; its kind says what is wrong with it, "ok" if nothing,   *)
(* and calls is the handler call a well-formed candidate asks for.          *)
(***************************************************************************)
MaxCandidates == 2    \* candidates in one text


Candidate(kind, toks, calls) == [kind |-> kind, toks |-> toks, calls |-> calls]

CandidateTemplates ==
    {Candidate("ok", <<BT, "create_file", LP, "'b.png'", COMMA, WS, "'x'", RP, BT>>,
               <<[func_name |-> "create_file", args |-> <<"'b.png'", "'x'">>]>>),
     Candidate("ok", <<BT, "write_to_file", LP, "'a.txt'", COMMA, "'x'", RP, BT>>,
               <<[func_name |-> "write_to_file", args |-> <<"'a.txt'", "'x'">>]>>),
     Candidate("ok", <<BT, WS, "delete_file", LP, "'a.txt'", RP, WS, BT>>,
               <<[func_name |-> "delete_file", args |-> <<"'a.txt'">>]>>),
     Candidate("ok", <<BT, "run_command", LP, "'ls'", RP, BT>>,
               <<[func_name |-> "run_command", args |-> <<"'ls'">>]>>),
     Candidate("ok", <<BT, "set_user_preference", LP, "'x'", COMMA, "'ls'", RP, BT>>,
               <<[func_name |-> "set_user_preference", args |-> <<"'x'", "'ls'">>]>>),
     Candidate("ok", <<BT, "rename_file", LP, "'a.txt'", COMMA, "'x'", RP, BT>>,
               <<[func_name |-> "rename_file", args |-> <<"'a.txt'", "'x'">>]>>),
     Candidate("ok", <<BT, "rename_file", LP, "'{OK}'", COMMA, "'x'", RP, BT>>,
               <<[func_name |-> "rename_file", args |-> <<"'{OK}'", "'x'">>]>>),
     Candidate("ok", <<BT, "create_file", LP, "'a.txt'", RP, BT>>,
               <<[func_name |-> "create_file", args |-> <<"'a.txt'">>]>>),
     Candidate("unparseable", <<BT, "create_file", LP, "'b.png'", COMMA, "'x'", BT>>, <<>>),
     Candidate("unparseable", <<BT, "create_file", LP, "'b.png'", COMMA, COMMA, RP, BT>>,
               <<>>),
     Candidate("not a call",
               <<BT, "create_file", LP, "'b.png'", RP, PLUS, LP, "'x'", RP, BT>>, <<>>),
     Candidate("callee not a name",
               <<BT, "create_file", LP, "'b.png'", RP, LP, "'x'", RP, BT>>, <<>>),
     Candidate("not whitelisted", <<BT, "foo", LP, "'a.txt'", RP, BT>>, <<>>),
     Candidate("non-literal argument",
               <<BT, "write_to_file", LP, "'a.txt'", COMMA, "path", RP, BT>>, <<>>),
     Candidate("non-literal argument",
               <<BT, "create_file", LP, "'b.png'", COMMA, "foo", LP, "'x'", RP, RP, BT>>,
               <<>>),
     Candidate("non-literal argument",
               <<BT, "set_user_preference", LP, "'x'", PLUS, "'x'", COMMA, "'ls'", RP, BT>>,
               <<>>),
     Candidate("handler raises", <<BT, "delete_file", LP, RP, BT>>, <<>>)}

RECURSIVE CandidateSeqs(_)
CandidateSeqs(n) ==
    IF n = 0 THEN {<<>>}
    ELSE CandidateSeqs(n - 1)
         \cup {Append(q, c) : q \in {x \in CandidateSeqs(n - 1) : Len(x) = n - 1},
                              c \in CandidateTemplates}

\* the text: the candidates with prose in between
RECURSIVE TextFrom(_)
TextFrom(cands) ==
    IF cands = <<>> THEN <<PROSE>>
    ELSE <<PROSE, WS>> \o Head(cands).toks \o <<WS>> \o TextFrom(Tail(cands))

\* the state after one match, r being what ProcessCommand left for it
Yielded(r, next, now) ==
    /\ scan' = next
    /\ fs' = r.fs
    /\ clock' = IF r.called # <<>> /\ r.called[1].func_name = "delete_file"
                THEN now ELSE clock
    /\ user_preferences' = r.prefs
    /\ out' = out \o r.events
    /\ dispatched' = dispatched \o r.called
    /\ recent_changes' = LastKept(recent_changes \o r.changes)
    /\ project_files_changed' = (project_files_changed \/ r.changes # <<>>)
    /\ journal' = AfterLogs(journal, appended + 1, r.logs)
    /\ readback' = ReadBack(readback, journal, appended + 1, r.logs)
    /\ appended' = appended + Len(r.logs)
    /\ lastCmd' = [func_name |-> IF r.called = <<>> THEN "" ELSE r.called[1].func_name,
                   process |-> r.process, code |-> r.code, events |-> r.events]

\* one match of finditer worked off: its events are yielded, its handler's
\* effects are made
ProcessNextCommand ==
    /\ scan > 0
    /\ NextMatch(response_text, scan).ok
    /\ \E outcome \in RunOutcomes, api \in ImageReplies, now \in clock..MaxClock :
          Yielded(ProcessCommand(fs, user_preferences,
                                 SubSeq(response_text, NextMatch(response_text, scan).from,
                                        NextMatch(response_text, scan).to),
                                 outcome, api, now),
                  NextMatch(response_text, scan).next, now)
    /\ UNCHANGED <<lastOp, spVars, response_text, segments, runVars, fnVars>>

\* finditer finds no further match: the generator returns
EndOfText ==
    /\ scan > 0
    /\ ~NextMatch(response_text, scan).ok
    /\ scan' = 0
    /\ lastCmd' = NoCmd
    /\ UNCHANGED <<wsVars, spVars, memVars, response_text, segments, out, dispatched,
                   recent_changes, project_files_changed, user_preferences, runVars,
                   fnVars>>

InitCmd ==
    /\ Constructed
    /\ segments \in CandidateSeqs(MaxCandidates)
    /\ response_text = TextFrom(segments)
    /\ scan = 1
    /\ out = <<>>
    /\ dispatched = <<>>
    /\ lastCmd = NoCmd
    /\ recent_changes = <<>>
    /\ project_files_changed = TRUE
    /\ user_preferences = <<>>

NextCmd ==
    \/ ProcessNextCommand
    \/ EndOfText

SpecCmd == InitCmd /\ [][NextCmd]_vars

(***************************************************************************)
(* run_enhanced_interaction: the plan, its execution step by step, the      *)
(* replanning protocol and the fallback workflow.  A piece of the run is    *)
(* the code between two places where the generator can be suspended.        *)
(***************************************************************************)
MaxPlanLen == 2     \* steps in a list the Planner returns
MaxReplans == 1     \* replan requests served in one run

max_retry_attempts == 3

ORIGINAL == "original_user_prompt"
ENHANCED == "enhanced_user_prompt"

Step(agent_name, instruction, is_final_step) ==
    [agent_name |-> agent_name, instruction |-> instruction,
     is_final_step |-> is_final_step]

\* the instruction of the closing step: the f-string and its prompt
Review(user_prompt) ==
    <<"Review the completion of the original user request: ", user_prompt>>

\* "Ensure PersonaAgent is the final step": the last step is the only one
\* whose flag is written
NormalizePlan(parsed_plan, user_prompt) ==
    IF parsed_plan = <<>> \/ Last(parsed_plan).agent_name # "PersonaAgent"
    THEN (IF parsed_plan # <<>>
          THEN [parsed_plan EXCEPT ![Len(parsed_plan)].is_final_step = FALSE]
          ELSE parsed_plan)
         \o <<Step("PersonaAgent", Review(user_prompt), TRUE)>>
    ELSE [parsed_plan EXCEPT ![Len(parsed_plan)].is_final_step = TRUE,
                             ![Len(parsed_plan)].instruction = Review(user_prompt)]

\* the steps the Planner may write: any of these agents (the empty name is
\* a step the executor skips as invalid, "Librarian" an agent it does not
\* know), any flag
RawSteps ==
    {Step(a, <<"task">>, f) :
        a \in {"MainCoder", "CodeCritic", "PersonaAgent", "Librarian", ""},
        f \in BOOLEAN}

\* what the Planner's model answers: a list of steps, or nothing usable
PlannerReplies ==
    {[kind |-> "list", parsed_plan |-> p] : p \in SeqsUpTo(RawSteps, MaxPlanLen)}
    \cup {[kind |-> k, parsed_plan |-> <<>>] :
            k \in {"empty response", "unparseable", "api error"}}

\* _get_plan_from_planner: the plan (None is the empty sequence: a plan
\* returned has a step), its _log_to_memory call, and what it was called with
GetPlanFromPlanner(reply, user_prompt, replan_context) ==
    LET plan == NormalizePlan(reply.parsed_plan, user_prompt)
    IN  [plan_steps |-> IF reply.kind = "list" THEN plan ELSE <<>>,
         logs |-> IF reply.kind = "list"
                  THEN <<Log("PLANNER_DECISION", 42 + Len(user_prompt), 3)>>
                  ELSE IF reply.kind = "empty response"
                  THEN <<Log("PLANNER_ERROR", 69, 2)>>
                  ELSE IF reply.kind = "unparseable"
                  THEN <<Log("PLANNER_ERROR", 75, 2)>>
                  ELSE <<Log("PLANNER_ERROR", 72, 2)>>,
         called_with |-> [called |-> TRUE, user_prompt |-> user_prompt,
                          replan_context |-> replan_context, answer |-> reply]]

PlannerAnswers(user_prompt, replan_context) ==
    {GetPlanFromPlanner(reply, user_prompt, replan_context) : reply \in PlannerReplies}

\* what the agent of a step did.  outcome: "ok"; "error" (the agent yielded
\* an error event and returned); "replan" (via a directive or via the
\* REQUEST_REPLAN line); "raise" (an exception left the agent); "skip".
\* step_output_data stands for the value: "None", "coder_output" (the dict
\* with text_response), "critique", "str", "error_status", "error".
Did(outcome, via, step_output_data, events, request, d) ==
    [outcome |-> outcome, via |-> via, step_output_data |-> step_output_data,
     events |-> events, request |-> request, d |-> d,
     signals |-> [directive |-> via = "directive", text |-> via = "text",
                  failure |-> FALSE]]

Types(events) == [k \in DOMAIN events |-> events[k].type]

\* the executor reading the last line of the response before the signal of
\* the directives
CoderResultTextFirst(r, request_replan_line) ==
    LET directive == \E k \in DOMAIN r.events : r.events[k].type = "replan_request"
    IN  IF request_replan_line
        THEN [Did("replan", "text", "coder_output",
                  <<"system", "agent_stream_chunk">> \o Types(r.events) \o <<"replan_request">>,
                  [reason |-> <<"REQUEST_REPLAN">>, agent_name |-> "MainCoder"], r)
              EXCEPT !.signals.directive = directive]
        ELSE IF directive
        THEN Did("replan", "directive", "None",
                 <<"system", "agent_stream_chunk", "replan_request">>,
                 [reason |-> r.events[CHOOSE k \in DOMAIN r.events :
                                         r.events[k].type = "replan_request"].reason,
                  agent_name |-> "MainCoder"], r)
        ELSE Did("ok", "", "coder_output",
                 <<"system", "agent_stream_chunk">> \o Types(r.events), NoRequest, r)

\* _execute_main_coder_phase on a response with one directive, r being what
\* _process_enhanced_commands left for it, and the executor's reading of
\* the last line of the response
CoderResult(r, request_replan_line) ==
    IF \E k \in DOMAIN r.events : r.events[k].type = "replan_request"
    THEN [Did("replan", "directive", "None",
              <<"system", "agent_stream_chunk", "replan_request">>,
              [reason |-> r.events[CHOOSE k \in DOMAIN r.events :
                                      r.events[k].type = "replan_request"].reason,
               agent_name |-> "MainCoder"], r)
          EXCEPT !.signals.text = request_replan_line]
    ELSE IF request_replan_line
    THEN Did("replan", "text", "coder_output",
             <<"system", "agent_stream_chunk">> \o Types(r.events) \o <<"replan_request">>,
             [reason |-> <<"REQUEST_REPLAN">>, agent_name |-> "MainCoder"], r)
    ELSE Did("ok", "", "coder_output",
             <<"system", "agent_stream_chunk">> \o Types(r.events), NoRequest, r)

\* the Main Coder: the model's call raises, or its response holds a directive
CoderResults(f, prefs, now) ==
    {[Did("raise", "", "None", <<"system">>, NoRequest, NotCalled(f, prefs, <<>>, <<>>))
      EXCEPT !.signals.failure = TRUE]}
    \cup {CoderResult(ProcessCommand(f, prefs, c, o, "bytes", now), line) :
            c \in {<<"create_file", LP, "'b.png'", COMMA, WS, "'x'", RP>>,
                   <<"run_command", LP, "'ls'", RP>>},
            o \in {[kind |-> "exit", code |-> 0], [kind |-> "exit", code |-> 1]},
            line \in BOOLEAN}

\* the dispatch of the loop body on the agent of the step
AgentSteps(step, f, prefs, previous, direct, now) ==
    LET none == NotCalled(f, prefs, <<>>, <<>>)
    IN  IF step.agent_name = "" \/ step.instruction = <<>>
        THEN {Did("skip", "", "None", <<"error">>, NoRequest, none)}
        ELSE IF step.agent_name = "PersonaAgent"
        THEN {Did("ok", "", "str", <<"system", "agent_stream_chunk">>, NoRequest, none),
              Did("replan", "text", "None",
                  <<"system", "agent_stream_chunk", "replan_request">>,
                  [reason |-> <<"REQUEST_REPLAN">>, agent_name |-> "PersonaAgent"], none),
              [Did("error", "", "error_status",
                   <<"system", "error", "agent_stream_chunk">>, NoRequest, none)
               EXCEPT !.signals.failure = TRUE]}
        ELSE IF step.agent_name = "MainCoder"
        THEN CoderResults(f, prefs, now)
        ELSE IF step.agent_name = "CodeCritic"
        THEN IF previous = "coder_output" \/ direct # "None"
             THEN {[Did("ok", "", "critique", <<"system", "agent_stream_chunk">>,
                        NoRequest, none)
                    EXCEPT !.signals.text = request_replan_line] :
                      request_replan_line \in BOOLEAN}
                  \cup {[Did("ok", "", "critique", <<"system", "agent_stream_chunk">>,
                            NoRequest, none)
                        EXCEPT !.signals.failure = TRUE],
                        Did("error", "", "critique", <<"system", "error">>,
                            NoRequest, none)}
             ELSE {Did("error", "", "error", <<"error">>, NoRequest, none)}
        ELSE {Did("error", "", "str", <<"error">>, NoRequest, none)}

\* the locals of the loop
Loop ==
    [pc |-> pc, plan_steps |-> plan_steps, step_index |-> step_index,
     previous_step_output |-> previous_step_output,
     output_from_completed_step_for_maincoder |->
         output_from_completed_step_for_maincoder,
     completed_normally |-> completed_normally,
     replan_failed_to_get_new_steps |-> replan_failed_to_get_new_steps,
     events |-> <<>>]

ReplanBlockKeepsIndex(L, new_plan_steps) ==
    IF new_plan_steps # <<>>
    THEN [L EXCEPT !.plan_steps = new_plan_steps,
                   !.previous_step_output = "None",
                   !.output_from_completed_step_for_maincoder = "None",
                   !.completed_normally = FALSE,
                   !.replan_failed_to_get_new_steps = FALSE,
                   !.events = @ \o <<"system", "system">>]
    ELSE [L EXCEPT !.replan_failed_to_get_new_steps = TRUE,
                   !.completed_normally = FALSE,
                   !.pc = "broke",
                   !.events = @ \o <<"system", "error">>]

ReplanBlockGoesOn(L, new_plan_steps) ==
    IF new_plan_steps # <<>>
    THEN [L EXCEPT !.plan_steps = new_plan_steps,
                   !.step_index = 0,
                   !.previous_step_output = "None",
                   !.output_from_completed_step_for_maincoder = "None",
                   !.completed_normally = FALSE,
                   !.replan_failed_to_get_new_steps = FALSE,
                   !.events = @ \o <<"system", "system">>]
    ELSE [L EXCEPT !.replan_failed_to_get_new_steps = TRUE,
                   !.completed_normally = FALSE,
                   !.step_index = @ + 1,
                   !.events = @ \o <<"system", "error">>]

\* "if replan_requested_this_step": the new plan replaces the old one and
\* the loop starts over, or the loop is left
ReplanBlock(L, new_plan_steps) ==
    IF new_plan_steps # <<>>
    THEN [L EXCEPT !.plan_steps = new_plan_steps,
                   !.step_index = 0,
                   !.previous_step_output = "None",
                   !.output_from_completed_step_for_maincoder = "None",
                   !.completed_normally = FALSE,
                   !.replan_failed_to_get_new_steps = FALSE,
                   !.events = @ \o <<"system", "system">>]
    ELSE [L EXCEPT !.replan_failed_to_get_new_steps = TRUE,
                   !.completed_normally = FALSE,
                   !.pc = "broke",
                   !.events = @ \o <<"system", "error">>]

\* one pass of the loop body, a being what the agent of the step did
AfterStep(L, step, a, new_plan_steps) ==
    IF a.outcome = "skip"
    THEN [L EXCEPT !.step_index = @ + 1, !.events = a.events]
    ELSE IF a.outcome = "raise"
    THEN [L EXCEPT !.previous_step_output = "error",
                   !.pc = "broke",
                   !.events = <<"system">> \o a.events \o <<"error">>]
    ELSE IF a.outcome = "replan"
    THEN ReplanBlock([L EXCEPT !.events = <<"system">> \o a.events], new_plan_steps)
    ELSE [L EXCEPT !.previous_step_output = a.step_output_data,
                   !.output_from_completed_step_for_maincoder =
                       IF a.step_output_data \in {"coder_output", "str"}
                       THEN "text" ELSE "None",
                   !.completed_normally = @ \/ step.is_final_step,
                   !.step_index = @ + 1,
                   !.events = <<"system">> \o a.events
                              \o (IF step.is_final_step THEN <<"system">> ELSE <<>>)]

\* what the directives of a piece and its _log_to_memory calls leave;
\* context_updated says that _update_project_context ran before them
Left(d, context_updated, logs) ==
    /\ fs' = d.fs
    /\ user_preferences' = d.prefs
    /\ recent_changes' = LastKept(recent_changes \o d.changes)
    /\ project_files_changed' =
           ((project_files_changed /\ ~context_updated) \/ d.changes # <<>>)
    /\ journal' = AfterLogs(journal, appended + 1, d.logs \o logs)
    /\ readback' = ReadBack(readback, journal, appended + 1, d.logs \o logs)
    /\ appended' = appended + Len(d.logs) + Len(logs)

Leaves(d, context_updated, logs) ==
    /\ Left(d, context_updated, logs)
    /\ UNCHANGED <<clock, lastOp, spVars, response_text, segments, scan, out,
                   dispatched, lastCmd, fnVars>>

\* the start of the run up to the first event after the Planner's answer:
\* the prompt is enhanced and shown as a chunk (or kept, when the call of
\* the enhancer failed: _get_enhanced_prompt then yields the prompt it was
\* given and no event follows), the Planner is asked for the initial plan
StartInteraction ==
    /\ pc = "start"
    /\ \E enhanced_user_prompt \in {ORIGINAL, ENHANCED} :
       \E p \in PlannerAnswers(enhanced_user_prompt, NoRequest) :
          /\ plan_steps' = p.plan_steps
          /\ pc' = IF p.plan_steps = <<>> THEN "fallback entry" ELSE "running"
          /\ lastStep' = [Piece("start", 0, NoStep,
                                IF p.plan_steps = <<>> THEN "no plan" ELSE "ok",
                                <<"system">>
                                \o (IF enhanced_user_prompt = ENHANCED
                                    THEN <<"agent_stream_chunk">> ELSE <<>>)
                                \o (IF p.plan_steps = <<>> THEN <<"error">>
                                    ELSE <<"system">>),
                                <<"PromptEnhancer">>, NoRequest, p)
                          EXCEPT !.signals.failure = (enhanced_user_prompt = ORIGINAL)]
          /\ Leaves(NotCalled(fs, user_preferences, <<>>, <<>>), FALSE,
                    <<Log("INTERACTION_START", 29 + Len(ORIGINAL), 6)>> \o p.logs)
    /\ step_index' = 0
    /\ completed_normally' = FALSE
    /\ replan_failed_to_get_new_steps' = FALSE
    /\ previous_step_output' = "None"
    /\ output_from_completed_step_for_maincoder' = "None"
    /\ UNCHANGED <<current_attempt, replans, report>>

\* one pass of the while loop over the plan
Stepped(step, a, p, L) ==
    /\ pc' = L.pc
    /\ plan_steps' = L.plan_steps
    /\ step_index' = L.step_index
    /\ previous_step_output' = L.previous_step_output
    /\ output_from_completed_step_for_maincoder' =
           L.output_from_completed_step_for_maincoder
    /\ completed_normally' = L.completed_normally
    /\ replan_failed_to_get_new_steps' = L.replan_failed_to_get_new_steps
    /\ replans' = IF a.outcome = "replan" /\ replans < MaxReplans
                   THEN replans + 1 ELSE replans
    /\ lastStep' = [Piece("step", step_index, step, a.outcome, L.events,
                          IF a.outcome = "skip" \/ step.agent_name = "Librarian"
                          THEN <<>> ELSE <<step.agent_name>>,
                          a.request, p)
                    EXCEPT !.signals = a.signals]
    /\ Leaves(a.d, step.agent_name = "PersonaAgent" /\ a.outcome # "skip", p.logs)
    /\ UNCHANGED <<current_attempt, report>>

ExecuteStep ==
    /\ pc = "running"
    /\ step_index < Len(plan_steps)
    /\ \E a \in AgentSteps(plan_steps[step_index + 1], fs, user_preferences,
                           previous_step_output,
                           output_from_completed_step_for_maincoder, clock) :
          /\ a.outcome = "replan" => replans < MaxReplans
          /\ \E p \in (IF a.outcome = "replan" THEN PlannerAnswers(ORIGINAL, a.request)
                       ELSE {NotAsked}) :
                Stepped(plan_steps[step_index + 1], a, p,
                        AfterStep(Loop, plan_steps[step_index + 1], a, p.plan_steps))

\* the loop has no count of the replans it served: a pass whose agent
\* requests a replan is made after MaxReplans of them as before.  Every new
\* plan appends a PLANNER_DECISION line to the journal, which so grows with
\* every pass; of the passes after the MaxReplans-th replan, the ones of a
\* plan without a Main Coder step (no step of which writes to the workspace
\* or to the journal) to which the Planner answers with the plan it gave
\* before are followed, without the PLANNER_DECISION line, and replans stays
\* at MaxReplans
ExecuteStepAgain ==
    /\ pc = "running"
    /\ step_index < Len(plan_steps)
    /\ replans = MaxReplans
    /\ \A k \in DOMAIN plan_steps : plan_steps[k].agent_name # "MainCoder"
    /\ \E a \in AgentSteps(plan_steps[step_index + 1], fs, user_preferences,
                           previous_step_output,
                           output_from_completed_step_for_maincoder, clock) :
          /\ a.outcome = "replan"
          /\ a.d.fs = fs /\ a.d.prefs = user_preferences /\ a.d.changes = <<>>
          /\ \E p \in PlannerAnswers(ORIGINAL, a.request) :
                /\ p.plan_steps = plan_steps
                /\ Stepped(plan_steps[step_index + 1], [a EXCEPT !.d.logs = <<>>],
                           [p EXCEPT !.logs = <<>>],
                           AfterStep(Loop, plan_steps[step_index + 1], a, p.plan_steps))

\* the end of the run after the loop: the report of INTERACTION_END
FinishInteraction ==
    /\ \/ pc = "broke"
       \/ pc = "running" /\ step_index >= Len(plan_steps)
    /\ pc' = "done"
    /\ report' = IF completed_normally THEN "plan complete"
                 ELSE IF replan_failed_to_get_new_steps THEN "replan failed"
                 ELSE IF step_index < Len(plan_steps) THEN "error in step"
                 ELSE "concluded by implicit end"
    /\ lastStep' = Piece("finish", step_index, NoStep, "", <<"system">>, <<>>,
                         NoRequest, NotAsked)
    /\ Leaves(NotCalled(fs, user_preferences, <<>>, <<>>), FALSE,
              <<Log("INTERACTION_END",
                    IF completed_normally \/ replan_failed_to_get_new_steps
                    THEN 54 + Len(ORIGINAL)
                    ELSE IF step_index < Len(plan_steps) THEN 56 + Len(ORIGINAL)
                    ELSE 66 + Len(ORIGINAL), 7)>>)
    /\ UNCHANGED <<plan_steps, step_index, completed_normally,
                   replan_failed_to_get_new_steps, previous_step_output,
                   output_from_completed_step_for_maincoder, current_attempt, replans>>

\* "FALLBACK TO ORIGINAL WORKFLOW": after the error event the enhancer is
\* run again and the retry loop is prepared
EnterFallback ==
    /\ pc = "fallback entry"
    /\ pc' = "fallback"
    /\ current_attempt' = 0
    /\ lastStep' = Piece("fallback entry", 0, NoStep, "ok", <<"system">>,
                         <<"PromptEnhancer">>, NoRequest, NotAsked)
    /\ Leaves(NotCalled(fs, user_preferences, <<>>, <<>>), FALSE, <<>>)
    /\ UNCHANGED <<plan_steps, step_index, completed_normally,
                   replan_failed_to_get_new_steps, previous_step_output,
                   output_from_completed_step_for_maincoder, replans, report>>

\* a variant of the pass that leaves the attempt counter alone
AttemptedUncounted(a, should_retry) ==
    LET replan_triggered == a.outcome = "replan" /\ a.via = "directive"
    IN  /\ current_attempt' = current_attempt
        /\ pc' = IF a.outcome = "raise" \/ replan_triggered \/ ~should_retry
                 THEN "fallback broke" ELSE "fallback"
        /\ lastStep' = [Piece("attempt", current_attempt, Step("MainCoder", <<>>, FALSE),
                              IF a.outcome = "replan" /\ ~replan_triggered
                              THEN "ok" ELSE a.outcome,
                              IF a.outcome = "raise" THEN a.events \o <<"error">>
                              ELSE IF replan_triggered
                              THEN a.events \o <<"system">>
                              ELSE Types(a.d.events) \o <<"system">>,
                              IF a.outcome = "raise" \/ replan_triggered
                              THEN <<"MainCoder">> ELSE <<"MainCoder", "CodeCritic">>,
                              IF replan_triggered THEN a.request ELSE NoRequest,
                              NotAsked)
                        EXCEPT !.signals = a.signals]
        /\ Leaves(a.d, TRUE, <<>>)
        /\ UNCHANGED <<plan_steps, step_index, completed_normally,
                       replan_failed_to_get_new_steps, previous_step_output,
                       output_from_completed_step_for_maincoder, replans, report>>

\* one pass of the retry loop of the fallback, a being what the Main Coder
\* did and should_retry what _handle_retry_and_finalization returned
Attempted(a, should_retry) ==
    LET replan_triggered == a.outcome = "replan" /\ a.via = "directive"
    IN  /\ current_attempt' = current_attempt + 1
        /\ pc' = IF a.outcome = "raise" \/ replan_triggered \/ ~should_retry
                 THEN "fallback broke" ELSE "fallback"
        /\ lastStep' = [Piece("attempt", current_attempt, Step("MainCoder", <<>>, FALSE),
                              IF a.outcome = "replan" /\ ~replan_triggered
                              THEN "ok" ELSE a.outcome,
                              IF a.outcome = "raise" THEN a.events \o <<"error">>
                              ELSE IF replan_triggered
                              THEN a.events \o <<"system">>
                              ELSE Types(a.d.events) \o <<"system">>,
                              IF a.outcome = "raise" \/ replan_triggered
                              THEN <<"MainCoder">> ELSE <<"MainCoder", "CodeCritic">>,
                              IF replan_triggered THEN a.request ELSE NoRequest,
                              NotAsked)
                        EXCEPT !.signals = a.signals]
        /\ Leaves(a.d, TRUE, <<>>)
        /\ UNCHANGED <<plan_steps, step_index, completed_normally,
                       replan_failed_to_get_new_steps, previous_step_output,
                       output_from_completed_step_for_maincoder, replans, report>>

FallbackAttempt ==
    /\ pc = "fallback"
    /\ current_attempt < max_retry_attempts
    /\ \E a \in CoderResults(fs, user_preferences, clock), perform_retry \in BOOLEAN :
          Attempted(a, perform_retry /\ current_attempt + 1 < max_retry_attempts)

\* the end of the fallback: INTERACTION_END (fallback path)
FinishFallback ==
    /\ \/ pc = "fallback broke"
       \/ pc = "fallback" /\ current_attempt >= max_retry_attempts
    /\ pc' = "done"
    /\ report' = "fallback path"
    /\ lastStep' = Piece("finish", 0, NoStep, "", <<>>, <<>>, NoRequest, NotAsked)
    /\ Leaves(NotCalled(fs, user_preferences, <<>>, <<>>), FALSE,
              <<Log("INTERACTION_END", 54 + Len(ORIGINAL), 7)>>)
    /\ UNCHANGED <<plan_steps, step_index, completed_normally,
                   replan_failed_to_get_new_steps, previous_step_output,
                   output_from_completed_step_for_maincoder, current_attempt, replans>>

NextRun ==
    \/ StartInteraction
    \/ ExecuteStep
    \/ FinishInteraction
    \/ EnterFallback
    \/ FallbackAttempt
    \/ FinishFallback

SpecRun == Init /\ [][NextRun]_vars

\* a pass of the retry loop, told by what it does to the attempt counter:
\* FallbackAttempt is the only action that takes such a step, and it can
\* take one whenever the loop's condition holds
LoopPass ==
    /\ pc = "fallback"
    /\ current_attempt < max_retry_attempts
    /\ current_attempt' = current_attempt + 1

\* the run with its consumer draining the generator and every call of an
\* agent returning: the fallback is entered, a pass of its loop that can be
\* made is made, and the code after the loop is run
SpecRunFair ==
    SpecRun /\ WF_vars(EnterFallback) /\ WF_current_attempt(LoopPass) /\ WF_vars(FinishFallback)

NextReplanning ==
    \/ NextRun
    \/ ExecuteStepAgain

SpecReplanning == Init /\ [][NextReplanning]_vars

\* the pieces of the run, told by what they do to pc and to the index of
\* the step: each can be run whenever its condition holds
StartPass == pc = "start" /\ pc' \in {"running", "fallback entry"}

PlanPass ==
    /\ pc = "running" /\ step_index < Len(plan_steps)
    /\ pc' \in {"running", "broke"}
    /\ step_index' \in 0..(MaxPlanLen + 1)

EndOfPlan ==
    /\ pc = "broke" \/ (pc = "running" /\ step_index >= Len(plan_steps))
    /\ pc' = "done"

FallbackEntered == pc = "fallback entry" /\ pc' = "fallback"

EndOfFallback ==
    /\ pc = "fallback broke" \/ (pc = "fallback" /\ current_attempt >= max_retry_attempts)
    /\ pc' = "done"

\* the run with every call returning and the generator drained to its end:
\* whatever piece of run_enhanced_interaction can be run is run
SpecReplanningFair ==
    /\ SpecReplanning
    /\ WF_pc(StartPass) /\ WF_<<pc, step_index>>(PlanPass) /\ WF_pc(EndOfPlan)
    /\ WF_pc(FallbackEntered) /\ WF_current_attempt(LoopPass) /\ WF_pc(EndOfFallback)

(***************************************************************************)
(* Grading of one attempt of the fallback workflow and the decision to      *)
(* retry.  A grade is a natural number; NONE stands for None.               *)
(***************************************************************************)
MaxVariants == 3   \* images generated in one attempt

NONE == 0 - 1      \* no grade

PASSING_GRADE == 70

CriticGrades == {60, 65, 80}

ArtGrades == {50, 60, 65, 70, 75, 90}

RECURSIVE SumGrades(_)
SumGrades(grades) == IF grades = <<>> THEN 0 ELSE Head(grades) + SumGrades(Tail(grades))

\* a variant of _calculate_overall_grade with the default of 85 it once had
CalculateOverallGradeDefault85(critic_grade, art_grade) ==
    LET grades == SelectSeq(<<critic_grade, art_grade>>, LAMBDA g : g # NONE)
    IN  IF grades = <<>> THEN 85 ELSE SumGrades(grades) \div Len(grades)

\* _calculate_overall_grade
CalculateOverallGrade(critic_grade, art_grade) ==
    LET grades == SelectSeq(<<critic_grade, art_grade>>, LAMBDA g : g # NONE)
    IN  IF grades = <<>> THEN NONE ELSE SumGrades(grades) \div Len(grades)

\* what the Art Critic answered for one image: an analysis with a grade or
\* without one, or nothing usable (an exception or an empty answer)
ArtReplies ==
    {[analysis |-> "Error", grade |-> NONE]}
        \cup {[analysis |-> "text", grade |-> g] : g \in ArtGrades \cup {NONE}}

\* _get_art_critique_results: one critique for each image whose analysis
\* did not fail; the image paths are 1, 2, ...
RECURSIVE ArtCritiqueResults(_, _)
ArtCritiqueResults(replies, k) ==
    IF k > Len(replies) THEN <<>>
    ELSE (IF replies[k].analysis = "Error" THEN <<>>
          ELSE <<[image_path |-> k, grade |-> replies[k].grade]>>)
         \o ArtCritiqueResults(replies, k + 1)

\* the loop for best_image_details: the index of the first critique with
\* the highest grade, 0 for None
RECURSIVE BestImageDetails(_, _, _, _)
BestImageDetails(all_art_critiques, k, best_grade, best) ==
    IF k > Len(all_art_critiques) THEN best
    ELSE IF all_art_critiques[k].grade # NONE /\ all_art_critiques[k].grade > best_grade
         THEN BestImageDetails(all_art_critiques, k + 1, all_art_critiques[k].grade, k)
         ELSE BestImageDetails(all_art_critiques, k + 1, best_grade, best)

\* a variant of the decision where one failing image is enough
PerformRetryAnyFailing(grading_enabled, critic_grade, all_art_critiques, final_art_grade_for_overall_calc, generated_image_paths_batch) ==
    LET overall_grade == CalculateOverallGrade(critic_grade, final_art_grade_for_overall_calc)
        graded == {k \in DOMAIN all_art_critiques :
                      /\ all_art_critiques[k].image_path \in generated_image_paths_batch
                      /\ all_art_critiques[k].grade # NONE}
        failing == {k \in graded : all_art_critiques[k].grade < PASSING_GRADE}
    IN  \/ grading_enabled /\ failing # {}
        \/ /\ grading_enabled
           /\ critic_grade # NONE \/ final_art_grade_for_overall_calc # NONE
           /\ overall_grade # NONE /\ overall_grade < PASSING_GRADE

\* perform_retry of _handle_retry_and_finalization
PerformRetry(grading_enabled, critic_grade, all_art_critiques, final_art_grade_for_overall_calc, generated_image_paths_batch) ==
    LET overall_grade == CalculateOverallGrade(critic_grade, final_art_grade_for_overall_calc)
        graded == {k \in DOMAIN all_art_critiques :
                      /\ all_art_critiques[k].image_path \in generated_image_paths_batch
                      /\ all_art_critiques[k].grade # NONE}
        failing == {k \in graded : all_art_critiques[k].grade < PASSING_GRADE}
        all_failed ==
            /\ grading_enabled
            /\ generated_image_paths_batch # {}
            /\ \E k \in DOMAIN all_art_critiques : all_art_critiques[k].grade # NONE
            /\ Cardinality(graded) > 0
            /\ Cardinality(graded) = Cardinality(failing)
    IN  \/ all_failed
        \/ /\ ~all_failed
           /\ grading_enabled
           /\ critic_grade # NONE \/ final_art_grade_for_overall_calc # NONE
           /\ overall_grade # NONE /\ overall_grade < PASSING_GRADE

\* the grading of one attempt in the retry loop of the fallback, from the
\* Main Coder's output to perform_retry: the critics are asked when
\* grading is enabled and the heuristics call for them
GradeAttempt ==
    /\ fnCall.name = "none"
    /\ \E grading_enabled \in BOOLEAN, invoke_code_critic \in BOOLEAN,
          invoke_art_critic \in BOOLEAN, code_reply \in CriticGrades \cup {NONE},
          replies \in SeqsUpTo(ArtReplies, MaxVariants) :
          LET generated_image_paths_batch == DOMAIN replies
              critic_grade == IF invoke_code_critic /\ grading_enabled
                              THEN code_reply ELSE NONE
              all_art_critiques ==
                  IF generated_image_paths_batch # {} /\ invoke_art_critic /\ grading_enabled
                  THEN ArtCritiqueResults(replies, 1) ELSE <<>>
              best == BestImageDetails(all_art_critiques, 1, 0 - 1, 0)
              final_art_grade_for_overall_calc ==
                  IF best = 0 THEN NONE ELSE all_art_critiques[best].grade
          IN  fnCall' = [name |-> "grade attempt",
                         grading_enabled |-> grading_enabled,
                         critic_grade |-> critic_grade,
                         all_art_critiques |-> all_art_critiques,
                         final_art_grade_for_overall_calc |-> final_art_grade_for_overall_calc,
                         overall_grade |-> CalculateOverallGrade(critic_grade,
                                               final_art_grade_for_overall_calc),
                         perform_retry |-> PerformRetry(grading_enabled, critic_grade,
                                               all_art_critiques,
                                               final_art_grade_for_overall_calc,
                                               generated_image_paths_batch)]
    /\ UNCHANGED <<wsVars, spVars, memVars, cmdVars, runVars, stream, guiVars>>

SpecGrading == Init /\ [][GradeAttempt]_vars

(***************************************************************************)
(* The attempts of the fallback with the images they generate: the Main     *)
(* Coder writes the variants of an attempt into the workspace, the critics  *)
(* grade them, and _handle_retry_and_finalization decides on a retry and    *)
(* moves images to the trash.                                               *)
(***************************************************************************)

\* the file name of the k-th image variant of an attempt
ImageName(k) == <<ToString(k), "png">>

\* the path the Main Coder gave generate_image for the k-th variant
ImagePath(k) == Rel(<<ImageName(k)>>)

\* the answers of the Art Critic in the attempts followed to their end: an
\* analysis without a grade, with a failing one or with a passing one
AttemptArtReplies == {[analysis |-> "text", grade |-> g] : g \in {NONE, 60, 90}}

\* the grades of the Code Critic in these attempts
AttemptCriticGrades == {60, 80}

\* the generate_image commands of one Main Coder phase, from the k-th on
RECURSIVE GenerateVariants(_, _, _)
GenerateVariants(f, k, n) ==
    IF k > n THEN f ELSE GenerateVariants(GenerateImage(f, ImagePath(k), "bytes").fs, k + 1, n)

\* the variants of the batch that are files of the workspace
VariantsInWorkspace(f, generated_image_paths_batch) ==
    {k \in generated_image_paths_batch : IsFile(f, Root \o <<ImageName(k)>>)}

\* the files of the trash folder that carry the name of the k-th variant,
\* as it is or with a timestamp
VariantsInTrash(f, k) ==
    {p \in DOMAIN f : /\ Len(p) = Len(TrashDir) + 1
                      /\ Front(p) = TrashDir
                      /\ IsFile(f, p)
                      /\ Head(Last(p)) = Head(ImageName(k))
                      /\ Last(Last(p)) = Last(ImageName(k))}

\* the set as a sequence in ascending order
RECURSIVE Ascending(_)
Ascending(S) ==
    IF S = {} THEN <<>>
    ELSE LET k == CHOOSE x \in S : \A y \in S : x <= y
         IN  <<k>> \o Ascending(S \ {k})

RETRY_INTRO == "retry_intro"

\* c.get('grade', 0) < 70 over all_art_critiques: the default is for a
\* missing key, the critiques carry the key, and None < 70 is a TypeError
OtherFailingCritiquesRaises(all_art_critiques) ==
    \E i \in DOMAIN all_art_critiques : all_art_critiques[i].grade = NONE

\* _handle_retry_and_finalization from the retry decision on: the events
\* by their tags, the filesystem it leaves, what it returns and the prompt
\* it leaves in current_main_coder_prompt_ref_for_retry; an exception that
\* leaves it is caught by the except clause of the loop, which yields the
\* error and breaks
HandleRetryAndFinalization(f, attempt, perform_retry, all_art_critiques, best, generated_image_paths_batch, now) ==
    IF perform_retry /\ attempt < max_retry_attempts
    THEN IF OtherFailingCritiquesRaises(all_art_critiques)
         THEN [events |-> <<"Requesting Main Coder to improve",
                            "Enhanced Agent System Error (Fallback)">>, fs |-> f,
               paths_to_trash_this_attempt |-> {}, should_retry |-> FALSE,
               raised |-> TRUE, current_main_coder_prompt |-> <<ENHANCED>>]
         ELSE [events |-> <<"Requesting Main Coder to improve">>, fs |-> f,
               paths_to_trash_this_attempt |-> {}, should_retry |-> TRUE,
               raised |-> FALSE, current_main_coder_prompt |-> <<RETRY_INTRO, ENHANCED>>]
    ELSE LET best_image_path_final ==
                 IF best = 0 THEN 0 ELSE all_art_critiques[best].image_path
             best_image_grade_final ==
                 IF best = 0 THEN 0 - 1 ELSE all_art_critiques[best].grade
             paths_to_trash_this_attempt ==
                 IF generated_image_paths_batch = {} THEN {}
                 ELSE IF perform_retry THEN generated_image_paths_batch
                 ELSE IF best_image_path_final # 0 /\ best_image_grade_final >= PASSING_GRADE
                 THEN generated_image_paths_batch \ {best_image_path_final}
                 ELSE generated_image_paths_batch
             closing ==
                 IF perform_retry THEN <<"Maximum attempts reached">> ELSE <<>>
             discarding ==
                 IF generated_image_paths_batch = {} THEN <<>>
                 ELSE IF perform_retry THEN <<"Discarding all images due to retry">>
                 ELSE IF best_image_path_final # 0 /\ best_image_grade_final >= PASSING_GRADE
                 THEN (IF paths_to_trash_this_attempt # {}
                       THEN <<"Keeping best image">> ELSE <<>>)
                 ELSE <<"No single best image met criteria">>
             unique_paths_to_trash ==
                 [i \in 1..Cardinality(paths_to_trash_this_attempt) |->
                     ImagePath(Ascending(paths_to_trash_this_attempt)[i])]
             mv == MoveToTrash(f, unique_paths_to_trash, now)
         IN  [events |-> closing \o discarding
                           \o (IF paths_to_trash_this_attempt # {}
                               THEN <<"Moving to the trash folder">>
                                        \o [i \in DOMAIN mv.messages |-> mv.messages[i].tag]
                               ELSE <<>>)
                           \o <<"Multi-agent analysis complete">>,
              fs |-> IF paths_to_trash_this_attempt # {} THEN mv.fs ELSE f,
              paths_to_trash_this_attempt |-> paths_to_trash_this_attempt,
              should_retry |-> FALSE,
              raised |-> FALSE, current_main_coder_prompt |-> <<ENHANCED>>]

\* the retry loop of the fallback goes into another pass
AttemptMayStart ==
    /\ fnCall.name = "none" \/ (fnCall.name = "attempt" /\ fnCall.should_retry)
    /\ current_attempt < max_retry_attempts

\* one pass of the retry loop of the fallback where the Main Coder phase
\* ends without a replan: the counter goes up, the phase writes its
\* images, the critics grade, and the attempt is finalized
AttemptWithImages ==
    /\ AttemptMayStart
    /\ \E n \in 0..MaxVariants, grading_enabled \in BOOLEAN, invoke_code_critic \in BOOLEAN,
          invoke_art_critic \in BOOLEAN, code_reply \in AttemptCriticGrades,
          now \in {clock} :
          \E replies \in [1..n -> AttemptArtReplies] :
          LET generated_image_paths_batch == 1..n
              generated == GenerateVariants(fs, 1, n)
              critic_grade == IF invoke_code_critic /\ grading_enabled
                              THEN code_reply ELSE NONE
              all_art_critiques ==
                  IF generated_image_paths_batch # {} /\ invoke_art_critic /\ grading_enabled
                  THEN ArtCritiqueResults(replies, 1) ELSE <<>>
              best == BestImageDetails(all_art_critiques, 1, 0 - 1, 0)
              final_art_grade_for_overall_calc ==
                  IF best = 0 THEN NONE ELSE all_art_critiques[best].grade
              perform_retry == PerformRetry(grading_enabled, critic_grade,
                                   all_art_critiques, final_art_grade_for_overall_calc,
                                   generated_image_paths_batch)
              r == HandleRetryAndFinalization(generated, current_attempt + 1,
                       perform_retry, all_art_critiques, best,
                       generated_image_paths_batch, now)
          IN  /\ current_attempt' = current_attempt + 1
              /\ fs' = r.fs
              /\ clock' = now
              /\ fnCall' = [name |-> "attempt",
                            generated_image_paths_batch |-> generated_image_paths_batch,
                            all_art_critiques |-> all_art_critiques,
                            best_image_details |-> best,
                            perform_retry |-> perform_retry,
                            events |-> r.events,
                            raised |-> r.raised,
                            current_main_coder_prompt |-> r.current_main_coder_prompt,
                            should_retry |-> r.should_retry]
    /\ UNCHANGED <<lastOp, spVars, memVars, cmdVars, pc, plan_steps, step_index,
                   completed_normally, replan_failed_to_get_new_steps,
                   previous_step_output, output_from_completed_step_for_maincoder,
                   replans, report, lastStep, stream, guiVars>>

SpecAttempt == Init /\ [][AttemptWithImages]_vars

(***************************************************************************)
(* The generators that read the stream of a language model:                *)
(* _execute_main_coder_phase, _get_code_critique_results over              *)
(* _get_code_critique, _execute_persona_agent_response and                 *)
(* _handle_prompt_enhancement over _get_enhanced_prompt.  The model's      *)
(* answer arrives as chunks of text; the stream ends after the last one or *)
(* raises.                                                                 *)
(***************************************************************************)
MaxChunks == 3     \* chunks in one answer

RR == "REQUEST_REPLAN:"

StreamingAgents == {"MainCoder", "CodeCritic", "PersonaAgent", "PromptEnhancer"}

\* the texts of the chunks: prose, no text, the two halves of a directive,
\* and a line that asks for a replan
ChunkTexts ==
    {<<PROSE>>, <<>>, <<WS, BT, "run_command", LP>>, <<"'ls'", RP, BT>>, <<NL, RR>>}

ChunkEvent(content) == [type |-> "agent_stream_chunk", content |-> content]

OtherEvent(type) == [type |-> type, content |-> <<>>]

\* "".join(chunks)
RECURSIVE JoinChunks(_)
JoinChunks(chunks) ==
    IF chunks = <<>> THEN <<>> ELSE Head(chunks) \o JoinChunks(Tail(chunks))

\* str.strip()
RECURSIVE StripText(_)
StripText(text) ==
    IF text = <<>> THEN text
    ELSE IF Head(text) \in {WS, NL} THEN StripText(Tail(text))
    ELSE IF Last(text) \in {WS, NL} THEN StripText(Front(text))
    ELSE text

\* the results of the commands so far followed by those of one more
Both(acc, r) ==
    [r EXCEPT !.events = acc.events \o @,
              !.called = acc.called \o @,
              !.changes = acc.changes \o @,
              !.logs = acc.logs \o @]

RECURSIVE ProcessEnhancedCommands(_, _, _, _, _)

\* a variant of the loop that goes on after a replan request
CommandProcessedGoesOn(acc, r, t, next, outcome, now) ==
    ProcessEnhancedCommands(Both(acc, r), t, next, outcome, now)

\* the end of one pass of the loop, r being what the command of the match
\* left: the loop is left at the first replan request
CommandProcessed(acc, r, t, next, outcome, now) ==
    IF \E k \in DOMAIN r.events : r.events[k].type = "replan_request"
    THEN Both(acc, r)
    ELSE ProcessEnhancedCommands(Both(acc, r), t, next, outcome, now)

\* one pass of the loop, m being the match
MatchProcessed(acc, t, m, outcome, now) ==
    CommandProcessed(acc,
                     ProcessCommand(acc.fs, acc.prefs, SubSeq(t, m.from, m.to), outcome,
                                    "bytes", now),
                     t, m.next, outcome, now)

\* the for loop of _process_enhanced_commands as _execute_main_coder_phase
\* runs it, from position pos of the text, acc being what the matches
\* before left
ProcessEnhancedCommands(acc, t, pos, outcome, now) ==
    IF ~NextMatch(t, pos).ok THEN acc
    ELSE MatchProcessed(acc, t, NextMatch(t, pos), outcome, now)

\* the agent is called: the generator runs up to its request for the stream
StartStream ==
    /\ stream.pc = "idle"
    /\ \E agent \in StreamingAgents, chunks \in SeqsUpTo(ChunkTexts, MaxChunks),
          raises \in BOOLEAN :
          stream' = [NotStreaming EXCEPT
                        !.agent = agent, !.chunks = chunks, !.raises = raises,
                        !.yielded = IF agent = "PersonaAgent" THEN <<>>
                                    ELSE <<OtherEvent("system")>>,
                        !.pc = "streaming"]
    /\ UNCHANGED <<wsVars, spVars, memVars, cmdVars, runVars, fnCall, guiVars>>

\* one pass of the loop over the stream: the Main Coder and the Code Critic
\* yield the chunk, the other two keep it
ChunkArrives ==
    /\ stream.pc = "streaming"
    /\ stream.got < Len(stream.chunks)
    /\ LET text == stream.chunks[stream.got + 1]
       IN  stream' =
             IF stream.agent = "MainCoder"
             THEN IF text # <<>>
                  THEN [stream EXCEPT !.got = @ + 1, !.text = @ \o text,
                                      !.yielded = Append(@, ChunkEvent(text))]
                  ELSE [stream EXCEPT !.got = @ + 1]
             ELSE IF stream.agent = "CodeCritic"
             THEN [stream EXCEPT !.got = @ + 1, !.collected = Append(@, text),
                                 !.yielded = Append(@, ChunkEvent(text))]
             ELSE IF text # <<>>
             THEN [stream EXCEPT !.got = @ + 1, !.text = @ \o text,
                                 !.collected = Append(@, text)]
             ELSE [stream EXCEPT !.got = @ + 1]
    /\ UNCHANGED <<wsVars, spVars, memVars, cmdVars, runVars, fnCall, guiVars>>

\* the events of the results of the directives that are yielded
Forwarded(events) ==
    [k \in DOMAIN events |->
        [type |-> events[k].type, content |-> <<events[k].icon, events[k].tag>>]]

\* the rest of _execute_main_coder_phase once the stream has ended, r being
\* what _process_enhanced_commands left
CoderReturns(r, replan) ==
    /\ stream' = [stream EXCEPT
                     !.parsed = Append(@, stream.text),
                     !.yielded = @ \o Forwarded(SelectSeq(r.events,
                                      LAMBDA e : e.type # "replan_request")),
                     !.returned = IF replan THEN "replan_triggered"
                                  ELSE "text_response",
                     !.pc = "returned"]
    /\ Left(r, TRUE, <<>>)
    /\ UNCHANGED <<clock, lastOp, spVars, response_text, segments, scan, out,
                   dispatched, lastCmd, runVars, fnCall, guiVars>>

\* a replan request is among the events
ReplanAmong(events) == \E k \in DOMAIN events : events[k].type = "replan_request"

\* the text of the Main Coder goes through _process_enhanced_commands
CoderEndOfStream ==
    \E outcome \in {[kind |-> "exit", code |-> 0], [kind |-> "exit", code |-> 1]} :
        \E r \in {ProcessEnhancedCommands(NotCalled(fs, user_preferences, <<>>, <<>>),
                                          stream.text, 1, outcome, clock)} :
            CoderReturns(r, ReplanAmong(r.events))

\* the rest of _get_code_critique_results
CriticEndOfStream ==
    /\ stream' = [stream EXCEPT
                     !.text = JoinChunks(stream.collected),
                     !.yielded = IF JoinChunks(stream.collected) = <<>>
                                 THEN Append(@, OtherEvent("error")) ELSE @,
                     !.returned = "critique",
                     !.pc = "returned"]
    /\ UNCHANGED <<wsVars, spVars, memVars, cmdVars, runVars, fnCall, guiVars>>

\* the rest of _execute_persona_agent_response: the last line that is not
\* blank is read, and only now the chunks are yielded, or the text before
\* the line as one chunk
PersonaEndOfStream ==
    LET lines == SplitLines(StripText(stream.text))
        replan == /\ lines # <<>>
                  /\ StripText(Last(lines)) # <<>>
                  /\ StripText(Last(lines))[1] = RR
        text_before_replan == StripText(JoinLines(Front(lines)))
    IN  /\ stream' = [stream EXCEPT
                         !.yielded =
                             IF replan
                             THEN (IF text_before_replan # <<>>
                                   THEN Append(@, ChunkEvent(text_before_replan \o <<NL>>))
                                   ELSE @)
                             ELSE @ \o [k \in DOMAIN stream.collected |->
                                           ChunkEvent(stream.collected[k])],
                         !.returned = IF replan THEN "REPLAN_REQUESTED"
                                      ELSE "full_response_text",
                         !.pc = "returned"]
        /\ UNCHANGED <<wsVars, spVars, memVars, cmdVars, runVars, fnCall, guiVars>>

\* the rest of _handle_prompt_enhancement, full being the text collected
EnhancerReturns(full) ==
    /\ stream' = [stream EXCEPT
                     !.text = full,
                     !.yielded = IF full # <<>> /\ full # <<ORIGINAL>>
                                 THEN Append(@, ChunkEvent(full))
                                 ELSE IF full = <<>>
                                 THEN Append(@, OtherEvent("system"))
                                 ELSE @,
                     !.returned = IF full = <<>> THEN "original_user_prompt"
                                  ELSE "full_enhanced_prompt_from_llm",
                     !.pc = "returned"]
    /\ UNCHANGED <<wsVars, spVars, memVars, cmdVars, runVars, fnCall, guiVars>>

\* the stream is exhausted
EndOfStream ==
    /\ stream.pc = "streaming"
    /\ stream.got = Len(stream.chunks)
    /\ ~stream.raises
    /\ \/ stream.agent = "MainCoder" /\ CoderEndOfStream
       \/ stream.agent = "CodeCritic" /\ CriticEndOfStream
       \/ stream.agent = "PersonaAgent" /\ PersonaEndOfStream
       \/ stream.agent = "PromptEnhancer" /\ EnhancerReturns(JoinChunks(stream.collected))

\* the stream raises: the Main Coder's generator lets the exception pass,
\* _get_code_critique yields its message as one more chunk,
\* the Persona Agent yields an error and an apology, _get_enhanced_prompt
\* logs the error and yields the prompt it was given as one more chunk
StreamRaises ==
    /\ stream.pc = "streaming"
    /\ stream.got = Len(stream.chunks)
    /\ stream.raises
    /\ \/ /\ stream.agent = "MainCoder"
          /\ stream' = [stream EXCEPT !.returned = "raised", !.pc = "returned"]
          /\ UNCHANGED <<wsVars, spVars, memVars, cmdVars, runVars, fnCall, guiVars>>
       \/ /\ stream.agent = "CodeCritic"
          /\ stream' = [stream EXCEPT
                           !.text = JoinChunks(stream.collected)
                                    \o <<"Error generating code critique">>,
                           !.yielded = Append(@, ChunkEvent(
                                           <<"Error generating code critique">>)),
                           !.returned = "critique",
                           !.pc = "returned"]
          /\ UNCHANGED <<wsVars, spVars, memVars, cmdVars, runVars, fnCall, guiVars>>
       \/ /\ stream.agent = "PersonaAgent"
          /\ stream' = [stream EXCEPT
                           !.yielded = @ \o <<OtherEvent("error"),
                                              ChunkEvent(<<"I encountered an issue">>)>>,
                           !.returned = "ERROR",
                           !.pc = "returned"]
          /\ UNCHANGED <<wsVars, spVars, memVars, cmdVars, runVars, fnCall, guiVars>>
       \/ /\ stream.agent = "PromptEnhancer"
          /\ stream' = [stream EXCEPT
                           !.text = JoinChunks(stream.collected) \o <<ORIGINAL>>,
                           !.yielded = IF stream.collected # <<>>
                                       THEN Append(@, ChunkEvent(
                                                JoinChunks(stream.collected)
                                                \o <<ORIGINAL>>))
                                       ELSE @,
                           !.returned = "full_enhanced_prompt_from_llm",
                           !.pc = "returned"]
          /\ journal' = AfterLogs(journal, appended + 1,
                                  <<Log("SYSTEM_ERROR", 27, 2)>>)
          /\ readback' = ReadBack(readback, journal, appended + 1,
                                  <<Log("SYSTEM_ERROR", 27, 2)>>)
          /\ appended' = appended + 1
          /\ UNCHANGED <<wsVars, spVars, cmdVars, runVars, fnCall, guiVars>>

NextStream ==
    \/ StartStream
    \/ ChunkArrives
    \/ EndOfStream
    \/ StreamRaises

SpecStream == Init /\ [][NextStream]_vars

(***************************************************************************)
(* _execute_main_coder_phase on a response that holds several directives.   *)
(***************************************************************************)
MaxDirectives == 3   \* directives in one response

CoderDirectives ==
    {<<BT, "create_file", LP, "'b.png'", COMMA, "'x'", RP, BT>>,
     <<BT, "write_to_file", LP, "'a.txt'", COMMA, "'x'", RP, BT>>,
     <<BT, "delete_file", LP, "'a.txt'", RP, BT>>,
     <<BT, "run_command", LP, "'ls'", RP, BT>>}

\* the response: the directives, each on a line of its own
RECURSIVE ResponseOf(_)
ResponseOf(directives) ==
    IF directives = <<>> THEN <<>>
    ELSE Head(directives) \o <<NL>> \o ResponseOf(Tail(directives))

\* the Main Coder's response goes through _process_enhanced_commands, r
\* being what the loop left
CoderPhaseReturns(directives, outcome, r) ==
    /\ fnCall' = [name |-> "coder phase",
                  directives |-> directives,
                  outcome |-> outcome,
                  called |-> r.called,
                  returned |-> IF ReplanAmong(r.events) THEN "replan_triggered"
                               ELSE "text_response"]
    /\ Left(r, TRUE, <<>>)
    /\ UNCHANGED <<clock, lastOp, spVars, response_text, segments, scan, out,
                   dispatched, lastCmd, runVars, stream, guiVars>>

CoderPhase ==
    /\ fnCall.name = "none"
    /\ \E directives \in SeqsUpTo(CoderDirectives, MaxDirectives),
          outcome \in {[kind |-> "exit", code |-> 0], [kind |-> "exit", code |-> 1]} :
          \E r \in {ProcessEnhancedCommands(NotCalled(fs, user_preferences, <<>>, <<>>),
                                            ResponseOf(directives), 1, outcome, clock)} :
              CoderPhaseReturns(directives, outcome, r)

SpecCoderPhase == Init /\ [][CoderPhase]_vars

(***************************************************************************)
(* The window and its worker threads: send_enhanced_prompt starts a thread *)
(* that puts the events of run_enhanced_interaction on msg_queue and then  *)
(* a done message; _process_messages, rescheduled every 100 ms on the main *)
(* thread, empties the queue.                                              *)
(***************************************************************************)
MaxRequests == 2   \* prompts sent in one run of the window

\* the event types run_enhanced_interaction yields on the ways it can end
RunPaths ==
    {[path |-> "completed", events |-> <<"system", "agent_stream_chunk", "system">>],
     [path |-> "step failure", events |-> <<"system", "error", "system">>],
     [path |-> "planner failure", events |-> <<"error", "agent_stream_chunk">>],
     [path |-> "replan failure",
      events |-> <<"replan_request", "system", "error", "system">>],
     [path |-> "no client", events |-> <<"error">>]}

Message(type, request) == [type |-> type, request |-> request]

\* queue.get_nowait reversed: the message put last
GetNowaitNewest(q) == [msg |-> Last(q), rest |-> Front(q)]

\* queue.Queue.get_nowait on a queue that is not empty: the message put first
GetNowait(q) == [msg |-> Head(q), rest |-> Tail(q)]

\* send_enhanced_prompt: the text widget holds a prompt, which it can only
\* while it is enabled; the widgets are disabled and the thread is started
SendEnhancedPrompt ==
    /\ gui.pc = "scheduled"
    /\ gui.input = "normal"
    /\ Len(workers) < MaxRequests
    /\ \E configured \in BOOLEAN, run \in RunPaths :
          workers' = Append(workers,
                            [pc |-> "started", configured |-> configured,
                             path |-> IF configured THEN run.path ELSE "not configured",
                             pending |-> IF configured THEN run.events ELSE <<"error">>])
    /\ gui' = [gui EXCEPT !.input = "disabled"]
    /\ UNCHANGED <<wsVars, spVars, memVars, cmdVars, runVars, fnCall, stream, msg_queue,
                   enqueued>>

\* _process_enhanced_prompt: one msg_queue.put, of the next event of the
\* generator (or of the error of a missing agent system), or of done once
\* there is none left
WorkerPuts ==
    \E n \in DOMAIN workers :
       /\ workers[n].pc # "finished"
       /\ LET type == IF workers[n].pending # <<>> THEN Head(workers[n].pending)
                      ELSE "done"
          IN  /\ msg_queue' = Append(msg_queue, Message(type, n))
              /\ enqueued' = Append(enqueued, Message(type, n))
              /\ workers' = [workers EXCEPT
                                ![n].pc = IF type = "done" THEN "finished" ELSE "putting",
                                ![n].pending = IF @ = <<>> THEN @ ELSE Tail(@)]
       /\ UNCHANGED <<wsVars, spVars, memVars, cmdVars, runVars, fnCall, stream, gui>>

\* the timer fires: _process_messages is entered
Poll ==
    /\ gui.pc = "scheduled"
    /\ gui' = [gui EXCEPT !.pc = "draining", !.polled = 0]
    /\ UNCHANGED <<wsVars, spVars, memVars, cmdVars, runVars, fnCall, stream, msg_queue,
                   workers, enqueued>>

\* one pass of "while not self.msg_queue.empty()": the message is taken and
\* handled; done enables the input again
HandleMessage ==
    /\ gui.pc = "draining"
    /\ msg_queue # <<>>
    /\ msg_queue' = GetNowait(msg_queue).rest
    /\ gui' = [gui EXCEPT
                  !.handled = Append(@, GetNowait(msg_queue).msg),
                  !.polled = @ + 1,
                  !.input = IF GetNowait(msg_queue).msg.type = "done" THEN "normal" ELSE @]
    /\ UNCHANGED <<wsVars, spVars, memVars, cmdVars, runVars, fnCall, stream, workers,
                   enqueued>>

\* the queue is found empty: self.after(100, self._process_messages)
PollEnds ==
    /\ gui.pc = "draining"
    /\ msg_queue = <<>>
    /\ gui' = [gui EXCEPT !.pc = "scheduled"]
    /\ UNCHANGED <<wsVars, spVars, memVars, cmdVars, runVars, fnCall, stream, msg_queue,
                   workers, enqueued>>

NextWindow ==
    \/ SendEnhancedPrompt
    \/ WorkerPuts
    \/ Poll
    \/ HandleMessage
    \/ PollEnds

SpecWindow == Init /\ [][NextWindow]_vars

(***************************************************************************)
(* Properties of the workspace.                                             *)
(***************************************************************************)
IsDescendant(p, base) == IsPrefix(base, p) /\ p # base

\* C2 as stated: _safe_path returns None for every candidate whose resolved
\* form is not a descendant of the workspace root, and the resolved path for
\* every candidate whose resolved form is a descendant.
C2_SafePathDescendantsOnly ==
    probe.called =>
        LET full_path == Resolve(fs, probe.cand)
        IN  IF IsDescendant(full_path, VmDirResolved(fs))
            THEN probe.res.ok /\ probe.res.path = full_path
            ELSE ~probe.res.ok

\* C2 amended: _safe_path returns None for the empty candidate and for every
\* candidate whose resolved form is neither the workspace root nor below it,
\* and returns the resolved path for every other candidate: the root itself
\* (".") is accepted like its descendants.
C2_SafePathRootOrBelow ==
    probe.called =>
        LET full_path == Resolve(fs, probe.cand)
        IN  IF ~IsEmptyString(probe.cand) /\ IsPrefix(Root, full_path)
            THEN probe.res.ok /\ probe.res.path = full_path
            ELSE ~probe.res.ok

\* a candidate that climbs out with ".." or through the symbolic link was
\* refused
C2_Witness ==
    /\ probe.called
    /\ \E i \in DOMAIN probe.cand.parts : probe.cand.parts[i] \in {DOTDOT, LNK}
    /\ ~IsPrefix(Root, Resolve(fs, probe.cand))
    /\ ~probe.res.ok

\* C3: no operation creates, changes, moves or removes anything outside the
\* workspace root, and an operation with a path argument that resolves
\* outside the root is refused with an error and changes nothing.
C3_NothingOutsideTouched ==
    [][/\ Outside(fs') = Outside(fs)
       /\ lastOp'.escapes => (lastOp'.refused /\ fs' = fs)]_vars

\* a rename with a path outside the root was refused after the workspace
\* had been changed by an earlier operation
C3_Witness ==
    /\ lastOp.op = "rename_file"
    /\ lastOp.escapes
    /\ lastOp.refused
    /\ fs # InitFS

\* the directory a path argument names its item in, as an argument of
\* list_directory
ParentArg(p) == IF Len(p.parts) <= 1 THEN Rel(<<DOT>>) ELSE Rel(Front(p.parts))

\* the step is a successful delete_file(p) at the time now
Deletes(p, now) ==
    /\ lastOp'.op = "delete_file"
    /\ lastOp'.n = lastOp.n + 1
    /\ DeleteFile(fs, p, now).res.icon = "TRASH"
    /\ fs' = DeleteFile(fs, p, now).fs

\* after the step the name of p is not listed in its directory, and a new
\* entry below .trash holds the item
GoneAndInTrash(p) ==
    /\ Last(p.parts) \notin ListedItems(fs', ParentArg(p))
    /\ \E q \in Subtree(fs', TrashDir) \ {TrashDir} :
          /\ q \notin DOMAIN fs
          /\ fs'[q] = fs[SafePath(fs, p).path]

\* C12: after a successful delete of a file or directory, the non-recursive
\* listing of its parent directory does not show the deleted name at its
\* original location, and the item exists under the .trash subtree.
C12_DeletedItemLeavesListingEntersTrash ==
    [][\A p \in PathArgs, now \in 0..MaxClock : Deletes(p, now) => GoneAndInTrash(p)]_vars

\* the entries of .trash
TrashEntries(f) == {q \in DOMAIN f : Len(q) = Len(TrashDir) + 1 /\ IsPrefix(TrashDir, q)}

\* every entry .trash had is still there under its name with what it held,
\* and k entries are new
TrashGrowsBy(k) ==
    /\ \A q \in TrashEntries(fs) :
          /\ Subtree(fs', q) = Subtree(fs, q)
          /\ \A r \in Subtree(fs, q) : fs'[r] = fs[r]
    /\ Cardinality(TrashEntries(fs') \ TrashEntries(fs)) = k

\* C13: across any sequence of delete operations (delete_file and the
\* trashing of images after grading) no entry of .trash is overwritten or
\* removed, and each successful delete adds exactly one new entry to .trash.
C13_TrashOnlyGrows ==
    [][(lastOp'.n = lastOp.n + 1 /\ lastOp'.op \in {"delete_file", "move_to_trash"})
          => TrashGrowsBy(lastOp'.moved)]_vars

(***************************************************************************)
(* Properties of the memory journal.                                        *)
(***************************************************************************)
RECURSIVE EntryChars(_, _)
EntryChars(id, k) ==
    IF k = 0 THEN 0
    ELSE EntryChars(id, k - 1) + (IF journal[k].id = id THEN journal[k].chars ELSE 0)

RECURSIVE SumEntryTokens(_)
SumEntryTokens(ids) ==
    IF ids = {} THEN 0
    ELSE LET id == CHOOSE x \in ids : TRUE
         IN  EstimateTokenCount(EntryChars(id, Len(journal))) + SumEntryTokens(ids \ {id})

\* C10: after every append, the estimated token costs of the journal's
\* entries with priority <= 2 add up to at most the budget.
C10_HighPriorityWithinBudget ==
    SumEntryTokens({journal[k].id : k \in {j \in DOMAIN journal :
                        journal[j].id # 0 /\ journal[j].prio <= HIGH_PRIORITY_THRESHOLD}})
        <= MAX_HIGH_PRIORITY_TOKENS

\* the characters of the lines of one entry, among the first k lines
RECURSIVE CharsOfEntry(_, _, _)
CharsOfEntry(lines, id, k) ==
    IF k = 0 THEN 0
    ELSE CharsOfEntry(lines, id, k - 1) + (IF lines[k].id = id THEN lines[k].chars ELSE 0)

\* the entries of priority <= 2 in the lines (an id is the rank of the call)
HighEntries(lines) ==
    {lines[k].id : k \in {j \in DOMAIN lines :
                            lines[j].id # 0 /\ lines[j].prio <= HIGH_PRIORITY_THRESHOLD}}

\* the estimated token cost of the given entries
RECURSIVE CostOfEntries(_, _)
CostOfEntries(lines, ids) ==
    IF ids = {} THEN 0
    ELSE LET id == CHOOSE x \in ids : TRUE
         IN  EstimateTokenCount(CharsOfEntry(lines, id, Len(lines)))
             + CostOfEntries(lines, ids \ {id})

\* the lines without the entries of the given ids
WithoutEntries(lines, ids) == SelectSeq(lines, LAMBDA l : l.id \notin ids)

\* what C11 asks of one append: before is the file with the entry appended,
\* after the file the call leaves
PrunedAsClaimed(before, after) ==
    LET high == HighEntries(before)
    IN  IF CostOfEntries(before, high) <= MAX_HIGH_PRIORITY_TOKENS
        THEN after = before
        ELSE \E removed \in SUBSET high :
                /\ removed # {}
                /\ \A r \in removed : \A h \in high : h < r => h \in removed
                /\ Len(after) = Len(WithoutEntries(before, removed)) + 1
                /\ SubSeq(after, 1, Len(after) - 1) = WithoutEntries(before, removed)
                /\ after[Len(after)].id = 0
                /\ after[Len(after)].prio > HIGH_PRIORITY_THRESHOLD
                /\ CostOfEntries(before, high \ removed) <= MAX_HIGH_PRIORITY_TOKENS
                /\ \A r \in removed :
                      (\A q \in removed : q <= r) =>
                          CostOfEntries(before, high \ (removed \ {r}))
                              > MAX_HIGH_PRIORITY_TOKENS

\* C11: an append that pushes the cost of the priority <= 2 entries over the
\* budget removes a prefix (oldest first) of those entries and nothing else,
\* only until the cost is at or under the budget, keeps the order of the
\* survivors and appends exactly one pruning notice of priority above the
\* threshold; an append that does not exceed the budget removes nothing and
\* adds no notice.
C11_PruningRemovesOldestHighPriorityOnly ==
    appended > 0 => PrunedAsClaimed(readback, journal)

(***************************************************************************)
(* Properties of the directive interpreter.                                 *)
(***************************************************************************)
RECURSIVE ExpectedCalls(_)
ExpectedCalls(cands) ==
    IF cands = <<>> THEN <<>> ELSE Head(cands).calls \o ExpectedCalls(Tail(cands))

\* C4: once a text is worked off, every faulty candidate in it has produced
\* an event of its own, and the well-formed whitelisted candidates have been
\* dispatched exactly once each, in text order.
C4_FaultsIsolated ==
    scan = 0 /\ response_text # <<>> =>
        /\ dispatched = ExpectedCalls(segments)
        /\ Cardinality({k \in DOMAIN out : out[k].type = "error" \/ out[k].icon = "INFO"})
              >= Cardinality({k \in DOMAIN segments : segments[k].kind # "ok"})

FailedProcess ==
    \/ lastCmd.process \in {"timeout", "launch"}
    \/ lastCmd.process = "exit" /\ lastCmd.code # 0

Carries(reason, piece) == \E k \in DOMAIN reason : reason[k] = piece

\* C5: a run directive whose process exits with a non-zero code, times out
\* or cannot be launched yields one replan-request event and no error or
\* status event, and the reason carries the exit code, the timeout or the
\* launch failure.
C5_RunFailureIsReplanRequest ==
    lastCmd.func_name = "run_command" /\ FailedProcess =>
        /\ Len(lastCmd.events) = 1
        /\ lastCmd.events[1].type = "replan_request"
        /\ LET reason == lastCmd.events[1].reason
           IN  CASE lastCmd.process = "exit" ->
                       /\ Carries(reason, "' failed with exit code ")
                       /\ Carries(reason, ToString(lastCmd.code))
                 [] lastCmd.process = "timeout" -> Carries(reason, "' timed out after ")
                 [] lastCmd.process = "launch" -> Carries(reason, "exception")

C5_Witness ==
    /\ lastCmd.func_name = "run_command"
    /\ lastCmd.process = "exit" /\ lastCmd.code = 2
    /\ lastCmd.events[1].type = "replan_request"

(***************************************************************************)
(* Properties of the plan and of its execution.                             *)
(***************************************************************************)

\* C1: whatever list of steps the Planner returns, the plan that
\* _get_plan_from_planner returns is non-empty, has exactly one step with
\* is_final_step = true, and that step is the last one and a PersonaAgent step.
C1_OneFinalStepLastPersona ==
    (lastStep.planner.called /\ lastStep.planner.answer.kind = "list") =>
        /\ plan_steps # <<>>
        /\ Cardinality({k \in DOMAIN plan_steps : plan_steps[k].is_final_step}) = 1
        /\ Last(plan_steps).is_final_step
        /\ Last(plan_steps).agent_name = "PersonaAgent"

\* the piece taken is a pass of the plan loop in which a replan was requested
ReplanRequested ==
    pc = "running" /\ lastStep'.kind = "step" /\ lastStep'.outcome = "replan"

\* C6: when a step ends in a replan request, the Planner is called with the
\* original request and {reason, triggering agent}; a plan returned replaces
\* the current plan by its normalized form, the index returns to 0, the
\* carried-over outputs are cleared and the next step executed is the first
\* of the new plan; without a plan the run stops as failed and no further
\* step is executed.
C6_ReplanReplacesPlanOrStops ==
    [][/\ ReplanRequested =>
            /\ lastStep'.planner.called
            /\ lastStep'.planner.user_prompt = ORIGINAL
            /\ lastStep'.planner.replan_context = lastStep'.request
            /\ lastStep'.request.agent_name = plan_steps[step_index + 1].agent_name
            /\ lastStep'.planner.answer.kind = "list" =>
                  /\ plan_steps' = NormalizePlan(lastStep'.planner.answer.parsed_plan,
                                                 ORIGINAL)
                  /\ step_index' = 0
                  /\ previous_step_output' = "None"
                  /\ output_from_completed_step_for_maincoder' = "None"
                  /\ ~completed_normally'
                  /\ pc' = "running"
            /\ lastStep'.planner.answer.kind # "list" =>
                  /\ pc' = "broke"
                  /\ replan_failed_to_get_new_steps'
                  /\ ~completed_normally'
       /\ (lastStep.kind = "step" /\ lastStep.outcome = "replan"
           /\ lastStep'.kind = "step") =>
              /\ lastStep.planner.answer.kind = "list"
              /\ lastStep'.index = 0
              /\ plan_steps = NormalizePlan(lastStep.planner.answer.parsed_plan, ORIGINAL)
       /\ replan_failed_to_get_new_steps =>
              /\ lastStep'.kind = "finish"
              /\ report' = "replan failed"
      ]_vars

\* a replan request after the first step was answered with a plan, which
\* is now at its first step
C6_Witness ==
    /\ lastStep.kind = "step"
    /\ lastStep.outcome = "replan"
    /\ lastStep.index > 0
    /\ lastStep.planner.answer.kind = "list"
    /\ lastStep.planner.answer.parsed_plan # <<>>
    /\ pc = "running"
    /\ step_index = 0

\* the step just executed carried the final flag and ended without a
\* replan request and without an error
FinalStepFinished ==
    lastStep.kind = "step" /\ lastStep.is_final_step /\ lastStep.outcome = "ok"

\* C7: the run is reported as "plan complete" exactly when the step flagged
\* is_final_step finished without a replan request and without an error,
\* and once that step has finished no further step of the plan is executed.
C7_CompletedExactlyAfterFinalStep ==
    [][/\ (report = "" /\ report' # "") =>
              (report' = "plan complete" <=> FinalStepFinished)
       /\ FinalStepFinished => lastStep'.kind # "step"
      ]_vars

\* C8: an exception that escapes a step aborts the run as failed: an error
\* event is emitted, no later step is executed, the run is not reported as
\* completed, and the workspace is left as the earlier steps made it.
C8_EscapedExceptionAbortsAsFailed ==
    [][/\ (pc = "running" /\ lastStep'.kind = "step" /\ lastStep'.outcome = "raise") =>
              /\ \E k \in DOMAIN lastStep'.events : lastStep'.events[k] = "error"
              /\ pc' = "broke"
              /\ fs' = fs
       /\ (lastStep.kind = "step" /\ lastStep.outcome = "raise") =>
              /\ lastStep'.kind = "finish"
              /\ report' # "plan complete"
              /\ fs' = fs
      ]_vars

\* the Planner was asked in the piece taken and produced no plan
PlannerFailedNow ==
    /\ lastStep' # lastStep
    /\ lastStep'.planner.called
    /\ lastStep'.planner.answer.kind # "list"

VariantGrades ==
    {fnCall.all_art_critiques[k].grade : k \in DOMAIN fnCall.all_art_critiques} \ {NONE}

\* C14: with grading enabled, the retry decision of an attempt is true
\* exactly if every graded image variant scored below 70 and at least one
\* was graded, or the aggregate score is below 70 and at least one grade is
\* present; the variants {50, 60, 65} trigger a retry, {50, 60, 75} do not.
C14_RetryDecision ==
    (fnCall.name = "grade attempt" /\ fnCall.grading_enabled) =>
        /\ fnCall.perform_retry <=>
               \/ VariantGrades # {} /\ \A g \in VariantGrades : g < 70
               \/ /\ fnCall.critic_grade # NONE \/ VariantGrades # {}
                  /\ fnCall.overall_grade # NONE /\ fnCall.overall_grade < 70
        /\ (VariantGrades = {50, 60, 65} /\ fnCall.critic_grade = NONE) => fnCall.perform_retry
        /\ (VariantGrades = {50, 60, 75} /\ fnCall.critic_grade = NONE) => ~fnCall.perform_retry

\* all three variants were graded below 70 and the attempt is retried
\* although the code grade is 80 and the aggregate is not below 70
C14_Witness ==
    /\ fnCall.name = "grade attempt"
    /\ fnCall.grading_enabled
    /\ VariantGrades = {50, 60, 65}
    /\ fnCall.critic_grade = 80
    /\ fnCall.perform_retry

\* C19: the aggregate grade is the arithmetic mean, rounded down, of the
\* code grade and the art grade that are present, and absent when neither
\* is: grade(80, absent) = 80, grade(absent, absent) = absent,
\* grade(60, 90) = 75.
C19_OverallGradeIsFloorOfMean ==
    fnCall.name = "grade attempt" =>
        LET c == fnCall.critic_grade
            a == fnCall.final_art_grade_for_overall_calc
            overall == fnCall.overall_grade
        IN  /\ (c = NONE /\ a = NONE) => overall = NONE
            /\ (c # NONE /\ a = NONE) => overall = c
            /\ (c = NONE /\ a # NONE) => overall = a
            /\ (c # NONE /\ a # NONE) => (2 * overall <= c + a /\ c + a < 2 * overall + 2)
            /\ (c = 80 /\ a = NONE) => overall = 80
            /\ (c = 60 /\ a = 90) => overall = 75

\* the code grade 65 and the art grade 70 gave 67: the mean 67.5 was
\* rounded down
C19_Witness ==
    /\ fnCall.name = "grade attempt"
    /\ fnCall.critic_grade = 65
    /\ fnCall.final_art_grade_for_overall_calc = 70
    /\ fnCall.overall_grade = 67

\* C15: within one request the retry loop of the fallback invokes the Main
\* Coder phase at most max_retry_attempts (3) times, whatever the critics
\* grade, and the loop always terminates.
C15_RetryLoopBoundedAndTerminates ==
    /\ [][lastStep'.kind = "attempt" =>
             /\ lastStep'.invoked[1] = "MainCoder"
             /\ current_attempt' = current_attempt + 1
             /\ current_attempt' <= 3]_vars
    /\ [][current_attempt' # current_attempt =>
             (lastStep'.kind = "attempt" \/ (pc = "fallback entry" /\ current_attempt = 0))]_vars
    /\ (pc = "fallback entry") ~> (pc = "done")

\* the third pass of the loop was made and the loop was left
C15_Witness ==
    /\ lastStep.kind = "attempt"
    /\ lastStep.index = 2
    /\ current_attempt = 3
    /\ pc = "fallback broke"

(***************************************************************************)
(* Properties of the text edits.                                            *)
(***************************************************************************)
\* the lines of the file before the last edit_file_lines call
LinesBefore == SplitLines(fnCall.original_content)

\* C16: edit_lines with an empty new_text and 1 <= start <= end <= n deletes
\* exactly the lines start..end: the file's lines afterwards are the lines
\* before start followed by the lines after end.
C16_EmptyTextDeletesLines ==
    (/\ fnCall.name = "edit_file_lines"
     /\ fnCall.new_content_str = <<>>
     /\ 1 <= fnCall.start_line_usr
     /\ fnCall.start_line_usr <= fnCall.end_line_usr
     /\ fnCall.end_line_usr <= Len(LinesBefore))
        => /\ fnCall.res.icon = "OK"
           /\ SplitLines(TextOnDisk(fs)) =
                  SubSeq(LinesBefore, 1, fnCall.start_line_usr - 1)
                      \o SubSeq(LinesBefore, fnCall.end_line_usr + 1, Len(LinesBefore))

\* C17: edit_lines with a non-empty new_text, end < start and
\* 1 <= start <= n + 1 inserts the k lines of new_text immediately before
\* the original line start: the file has n + k lines, and end has no other
\* effect.
C17_InsertsBeforeStart ==
    (/\ fnCall.name = "edit_file_lines"
     /\ fnCall.new_content_str # <<>>
     /\ fnCall.end_line_usr < fnCall.start_line_usr
     /\ 1 <= fnCall.start_line_usr
     /\ fnCall.start_line_usr <= Len(LinesBefore) + 1)
        => /\ fnCall.res.icon = "OK"
           /\ SplitLines(TextOnDisk(fs)) =
                  SubSeq(LinesBefore, 1, fnCall.start_line_usr - 1)
                      \o SplitLines(fnCall.new_content_str)
                      \o SubSeq(LinesBefore, fnCall.start_line_usr, Len(LinesBefore))

\* the positions where the non-overlapping occurrences of old start in
\* text, taken from the left, from position k on
RECURSIVE Matches(_, _, _)
Matches(text, old, k) ==
    IF k + Len(old) - 1 > Len(text) THEN {}
    ELSE IF SubSeq(text, k, k + Len(old) - 1) = old
         THEN {k} \cup Matches(text, old, k + Len(old))
         ELSE Matches(text, old, k + 1)

\* text with new in the place of old at each of the positions, from k on
RECURSIVE Substituted(_, _, _, _, _)
Substituted(text, old, new, at, k) ==
    IF k > Len(text) THEN <<>>
    ELSE IF k \in at THEN new \o Substituted(text, old, new, at, k + Len(old))
    ELSE <<text[k]>> \o Substituted(text, old, new, at, k + 1)

\* C18: replace_snippet replaces every non-overlapping occurrence of old and
\* reports a count equal to the number of non-overlapping matches; when old
\* does not occur it reports 'not found' as a result that is no error and
\* leaves the file untouched.
C18_SnippetReplacedEverywhereAndCounted ==
    fnCall.name = "replace_file_snippet" =>
        LET at == Matches(fnCall.original_content, fnCall.old_snippet, 1)
        IN  IF at = {}
            THEN /\ fnCall.res.icon = "INFO"
                 /\ fnCall.res.tag = "Snippet not found"
                 /\ TextOnDisk(fs) = fnCall.original_content
            ELSE /\ fnCall.res.icon = "OK"
                 /\ fnCall.res.occurrences = Cardinality(at)
                 /\ TextOnDisk(fs) = Substituted(fnCall.original_content, fnCall.old_snippet,
                                                 fnCall.new_snippet, at, 1)

\* "a\na" was replaced in a text where it occurs overlapping itself, and
\* fewer replacements were reported than there are occurrences
C18_Witness ==
    /\ fnCall.name = "replace_file_snippet"
    /\ fnCall.old_snippet = <<"a", NL, "a">>
    /\ fnCall.res.icon = "OK"
    /\ fnCall.res.occurrences = 2
    /\ StrCountOverlapping(fnCall.original_content, fnCall.old_snippet) = 4
    /\ TextOnDisk(fs) # fnCall.original_content

\* ---------------------------------------------------------------------
\* Properties of replan detection

\* the reason of a replan requested by run_command: one of its f-strings
RunCommandReason(reason) ==
    /\ reason # <<>>
    /\ reason[1] \in {"Command execution error for '", "The command '"}

\* C20: after a Main Coder step the replan signal of the directives is used
\* first, and the REQUEST_REPLAN line of the text only when there is none;
\* the reason and the agent given to the Planner are those of the source
\* that won.
C20_DirectiveSignalBeforeSentinel ==
    (lastStep.kind = "step" /\ lastStep.agent_name = "MainCoder"
     /\ lastStep.outcome \in {"ok", "replan"}) =>
        /\ lastStep.outcome = "replan"
               <=> (lastStep.signals.directive \/ lastStep.signals.text)
        /\ lastStep.signals.directive =>
               /\ RunCommandReason(lastStep.request.reason)
               /\ lastStep.request.agent_name = "MainCoder"
        /\ (~lastStep.signals.directive /\ lastStep.signals.text) =>
               lastStep.request = [reason |-> <<"REQUEST_REPLAN">>,
                                   agent_name |-> "MainCoder"]
        /\ lastStep.outcome = "replan" =>
               /\ lastStep.planner.called
               /\ lastStep.planner.replan_context = lastStep.request

\* a failed run directive in a response that ends with the REQUEST_REPLAN
\* line: the Planner was given the reason of the directive
C20_Witness ==
    /\ lastStep.kind = "step"
    /\ lastStep.agent_name = "MainCoder"
    /\ lastStep.signals.directive
    /\ lastStep.signals.text
    /\ lastStep.planner.called
    /\ RunCommandReason(lastStep.planner.replan_context.reason)
    /\ lastStep.planner.replan_context.agent_name = "MainCoder"

\* C21: a plan step of any agent whose raw output ends with a line
\* REQUEST_REPLAN: <reason> (and whose directives asked for no replan)
\* causes a replan: the Planner is asked for a new plan with that reason
\* and the agent's name, and the new plan is executed from its first step.
C21_SentinelLineOfAnyAgentReplans ==
    (lastStep.kind = "step" /\ lastStep.signals.text /\ ~lastStep.signals.directive) =>
        /\ lastStep.outcome = "replan"
        /\ lastStep.planner.called
        /\ lastStep.planner.replan_context =
               [reason |-> <<"REQUEST_REPLAN">>, agent_name |-> lastStep.agent_name]
        /\ lastStep.planner.answer.kind = "list" =>
               /\ plan_steps = NormalizePlan(lastStep.planner.answer.parsed_plan, ORIGINAL)
               /\ step_index = 0

\* C22: a step whose call of the language model failed (the Main Coder's,
\* the Code Critic's, the Persona Agent's) ends as a replan request: the
\* Planner is asked for a new plan on behalf of the step's agent; the step
\* is not taken as finished and the run is not stopped.
C22_AgentCallFailureReplans ==
    (lastStep.kind = "step" /\ lastStep.signals.failure) =>
        /\ lastStep.outcome = "replan"
        /\ lastStep.planner.called
        /\ lastStep.planner.replan_context.agent_name = lastStep.agent_name
        /\ lastStep.planner.answer.kind = "list" => pc = "running"

\* ---------------------------------------------------------------------
\* Properties of the events of a run

\* the positions of the events of a type among the events of a piece
EventsOfType(events, type) == {k \in DOMAIN events : events[k] = type}

\* the errors met in a piece of the run: a step skipped or failed, an
\* exception or a failed call of a language model, and a plan the Planner
\* did not deliver
ErrorsIn(piece) ==
    (IF piece.signals.failure \/ piece.outcome \in {"skip", "error", "raise"}
     THEN 1 ELSE 0)
    + (IF piece.outcome = "no plan"
          \/ (piece.planner.called /\ piece.kind = "step"
              /\ piece.planner.answer.kind # "list")
       THEN 1 ELSE 0)

\* C23: a replan that is served is announced by exactly one replan_request
\* event, which carries the reason and the agent handed to the Planner and
\* comes before the executor's announcement of the planning cycle and the
\* Planner's result; a step that asks for no replan yields none.  Every
\* error is an error event of its own, also when the run ends there.
C23_ReplansAndErrorsAreEvents ==
    LET ev == lastStep.events
    IN  /\ (lastStep.kind = "step" /\ lastStep.outcome = "replan") =>
               /\ EventsOfType(ev, "replan_request") = {Len(ev) - 2}
               /\ ev[Len(ev) - 1] = "system"
               /\ lastStep.planner.called
               /\ lastStep.planner.replan_context = lastStep.request
               /\ lastStep.request.reason # <<>>
               /\ lastStep.request.agent_name # ""
               /\ ev[Len(ev)] = (IF lastStep.planner.answer.kind = "list"
                                 THEN "system" ELSE "error")
        /\ (lastStep.kind = "step" /\ lastStep.outcome # "replan") =>
               /\ EventsOfType(ev, "replan_request") = {}
               /\ ~lastStep.planner.called
        /\ lastStep.kind \in {"start", "step", "attempt"} =>
               Cardinality(EventsOfType(ev, "error")) = ErrorsIn(lastStep)

\* the texts of the chunk events among the events yielded
ChunksForwarded ==
    LET chunk_events == SelectSeq(stream.yielded,
                                  LAMBDA e : e.type = "agent_stream_chunk")
    IN  [k \in DOMAIN chunk_events |-> chunk_events[k].content]

\* the chunks with text among those the stream has delivered
ChunksArrived ==
    SelectSeq(SubSeq(stream.chunks, 1, stream.got), LAMBDA c : c # <<>>)

\* C24: while an agent reads its stream, and after the stream has ended,
\* the chunk events yielded are the chunks of text that have arrived, in
\* their order; no chunk event follows an event of a directive's result;
\* the directives are parsed once, after the last chunk, in the whole text.
C24_ChunksForwardedOnArrival ==
    /\ (stream.pc = "streaming" \/ (stream.pc = "returned" /\ ~stream.raises)) =>
           SelectSeq(ChunksForwarded, LAMBDA c : c # <<>>) = ChunksArrived
    /\ \A j, k \in DOMAIN stream.yielded :
           (j < k /\ stream.yielded[k].type = "agent_stream_chunk") =>
               \/ stream.yielded[j].type = "agent_stream_chunk"
               \/ j = 1 /\ stream.yielded[j] = OtherEvent("system")
    /\ Len(stream.parsed) <= 1
    /\ stream.parsed # <<>> =>
           /\ stream.got = Len(stream.chunks)
           /\ stream.parsed[1] = JoinChunks(stream.chunks)
    /\ (stream.pc = "returned" /\ stream.agent = "MainCoder" /\ ~stream.raises) =>
           stream.parsed # <<>>

\* the messages of a request among those put on the queue
PutsOf(n) == SelectSeq(enqueued, LAMBDA m : m.request = n)

DoneIn(msgs) == {k \in DOMAIN msgs : msgs[k].type = "done"}

Finalized == fnCall.name = "attempt"

\* the k-th variant of the last attempt was moved to the trash
Trashed(k) == ~Exists(fs, Root \o <<ImageName(k)>>) /\ VariantsInTrash(fs, k) # {}

\* the grades the Art Critic gave the variants of the last attempt
GradesGiven ==
    {fnCall.all_art_critiques[i].grade : i \in DOMAIN fnCall.all_art_critiques} \ {NONE}

\* the critic gave the k-th variant the highest of the grades it gave
HighestScoring(k) ==
    \E i \in DOMAIN fnCall.all_art_critiques :
        /\ fnCall.all_art_critiques[i].image_path = k
        /\ fnCall.all_art_critiques[i].grade # NONE
        /\ \A g \in GradesGiven : g <= fnCall.all_art_critiques[i].grade

\* C26: when an attempt ends with a retry decision and attempts remain, all
\* the image variants generated in that attempt are in the trash before the
\* next attempt starts.
C26_RetryTrashesAllVariants ==
    Finalized /\ fnCall.perform_retry /\ current_attempt < max_retry_attempts
        => \A k \in fnCall.generated_image_paths_batch : Trashed(k)

\* C27: when an attempt that produced image variants is accepted (no retry
\* decision), exactly one variant, the highest-scoring one, remains in the
\* workspace and every other variant of the attempt is in the trash.
C27_AcceptKeepsOnlyTheBestVariant ==
    Finalized /\ ~fnCall.perform_retry /\ fnCall.generated_image_paths_batch # {}
        => \E k \in fnCall.generated_image_paths_batch :
              /\ VariantsInWorkspace(fs, fnCall.generated_image_paths_batch) = {k}
              /\ HighestScoring(k)
              /\ \A j \in fnCall.generated_image_paths_batch \ {k} : Trashed(j)

\* C28: when the retry condition still holds on the last allowed attempt,
\* the warning that the maximum of attempts is reached is emitted, no
\* further attempt is started, and the images generated by that attempt
\* are kept in the workspace.
C28_LastAttemptKeptWithWarning ==
    Finalized /\ fnCall.perform_retry /\ current_attempt = max_retry_attempts
        => /\ \E i \in DOMAIN fnCall.events : fnCall.events[i] = "Maximum attempts reached"
           /\ ~fnCall.should_retry
           /\ ~AttemptMayStart
           /\ VariantsInWorkspace(fs, fnCall.generated_image_paths_batch)
                  = fnCall.generated_image_paths_batch

(***************************************************************************)
(* Properties of edit_file_lines: replacement and the checks of the line    *)
(* numbers.                                                                 *)
(***************************************************************************)

\* the last call was edit_file_lines with a text and start <= end
IsReplacement ==
    /\ fnCall.name = "edit_file_lines"
    /\ fnCall.new_content_str # <<>>
    /\ fnCall.start_line_usr <= fnCall.end_line_usr

\* C29: edit_lines with a non-empty new_text and 1 <= start <= end <= n on a
\* file of n lines replaces exactly the lines start..end with the k lines
\* of new_text: the lines before start and after end stay as they are, in
\* order, and the file has n - (end - start + 1) + k lines; on a file of no
\* lines, start = end = 1 is accepted and leaves exactly the lines of
\* new_text.
C29_ReplacesLinesStartToEnd ==
    (/\ IsReplacement
     /\ \/ 1 <= fnCall.start_line_usr /\ fnCall.end_line_usr <= Len(LinesBefore)
        \/ Len(LinesBefore) = 0 /\ fnCall.start_line_usr = 1 /\ fnCall.end_line_usr = 1)
        => /\ fnCall.res.icon = "OK"
           /\ SplitLines(TextOnDisk(fs)) =
                  SubSeq(LinesBefore, 1, fnCall.start_line_usr - 1)
                      \o SplitLines(fnCall.new_content_str)
                      \o SubSeq(LinesBefore, fnCall.end_line_usr + 1, Len(LinesBefore))
           /\ Len(SplitLines(TextOnDisk(fs))) =
                  Len(LinesBefore) - (fnCall.end_line_usr - fnCall.start_line_usr + 1)
                      + Len(SplitLines(fnCall.new_content_str))
                      + (IF Len(LinesBefore) = 0 THEN 1 ELSE 0)

\* the line numbers of the last call are invalid for the mode it selects
InvalidForMode ==
    LET n == Len(LinesBefore)
        start == fnCall.start_line_usr
        end == fnCall.end_line_usr
    IN  IF fnCall.new_content_str = <<>>
        THEN start < 1 \/ end > n \/ start > end
        ELSE IF end < start
        THEN start < 1 \/ start > n + 1
        ELSE (start < 1 \/ end > n) /\ ~(n = 0 /\ start = 1 /\ end = 1)

C31_EditKeepsFinalNewline ==
    fnCall.name = "edit_file_lines" /\ fnCall.res.icon = "OK"
        => /\ EndsWithNL(TextOnDisk(fs)) <=> EndsWithNL(fnCall.original_content)
           /\ SplitLines(TextOnDisk(fs)) =
                  EditedLines(LinesBefore, fnCall.start_line_usr, fnCall.end_line_usr,
                              fnCall.new_content_str)

(***************************************************************************)
(* The grade read from a critique (_extract_grade).  A critique is a        *)
(* sequence of tokens: the word "grade" in any case, a colon, a blank, a    *)
(* digit, the text "/100", or a letter.                                     *)
(***************************************************************************)
MaxCritiqueLen == 5

GradeDigits == {"0", "1", "9"}

GradeTokens == {"grade", ":", " ", "/100", "x"} \cup GradeDigits

DigitValue(d) == CASE d = "0" -> 0 [] d = "1" -> 1 [] d = "9" -> 9

\* int(group)
RECURSIVE IntOf(_)
IntOf(digits) ==
    IF digits = <<>> THEN 0 ELSE 10 * IntOf(Front(digits)) + DigitValue(Last(digits))

\* \w at the first and at the last character of a token
WordAtStart(tok) == tok \in GradeDigits \cup {"grade", "x"}

WordAtEnd(tok) == tok \in GradeDigits \cup {"grade", "x", "/100"}

\* the first position from k on whose token is not in set
RECURSIVE SkipWhile(_, _, _)
SkipWhile(text, k, set) ==
    IF k <= Len(text) /\ text[k] \in set THEN SkipWhile(text, k + 1, set) ELSE k

\* the digits from position k on
DigitRun(text, k) == SkipWhile(text, k, GradeDigits) - k

\* GRADE:\s*(\d+)/100 matched at position k: where its group begins and how
\* long it is; len = 0 for no match
FirstPatternAt(text, k) ==
    IF text[k] = "grade" /\ k + 1 <= Len(text) /\ text[k + 1] = ":"
    THEN LET j == SkipWhile(text, k + 2, {" "})
             n == DigitRun(text, j)
         IN  IF n >= 1 /\ j + n <= Len(text) /\ text[j + n] = "/100"
             THEN [from |-> j, len |-> n] ELSE [from |-> j, len |-> 0]
    ELSE [from |-> k, len |-> 0]

\* \bgrade[:\s]*(\d{1,3})\b matched at position k
SecondPatternAt(text, k) ==
    IF text[k] = "grade" /\ (k = 1 \/ ~WordAtEnd(text[k - 1]))
    THEN LET j == SkipWhile(text, k + 1, {":", " "})
             n == DigitRun(text, j)
         IN  IF n \in 1..3 /\ (j + n > Len(text) \/ ~WordAtStart(text[j + n]))
             THEN [from |-> j, len |-> n] ELSE [from |-> j, len |-> 0]
    ELSE [from |-> k, len |-> 0]

\* re.search: the group of the leftmost match as an int, NONE without a match
Searched(text, matches) ==
    IF matches = {} THEN NONE
    ELSE LET k == CHOOSE m \in matches : \A o \in matches : m <= o
         IN  k

FirstPattern(text) ==
    LET k == Searched(text, {m \in DOMAIN text : FirstPatternAt(text, m).len > 0})
    IN  IF k = NONE THEN NONE
        ELSE IntOf(SubSeq(text, FirstPatternAt(text, k).from,
                          FirstPatternAt(text, k).from + FirstPatternAt(text, k).len - 1))

SecondPattern(text) ==
    LET k == Searched(text, {m \in DOMAIN text : SecondPatternAt(text, m).len > 0})
    IN  IF k = NONE THEN NONE
        ELSE IntOf(SubSeq(text, SecondPatternAt(text, k).from,
                          SecondPatternAt(text, k).from + SecondPatternAt(text, k).len - 1))

\* _extract_grade
ExtractGrade(agent_response) ==
    IF agent_response = <<>> THEN NONE
    ELSE IF FirstPattern(agent_response) # NONE THEN FirstPattern(agent_response)
    ELSE SecondPattern(agent_response)

\* a grade is read from a critique
ExtractGradeCall ==
    /\ fnCall.name = "none"
    /\ \E agent_response \in SeqsUpTo(GradeTokens, MaxCritiqueLen) :
          fnCall' = [name |-> "extract_grade",
                     agent_response |-> agent_response,
                     grade |-> ExtractGrade(agent_response)]
    /\ UNCHANGED <<wsVars, spVars, memVars, cmdVars, runVars, stream, guiVars>>

SpecExtractGrade == Init /\ [][ExtractGradeCall]_vars

(***************************************************************************)
(* Properties of the directives' arguments and of the record of changes.    *)
(***************************************************************************)

\* the text of the next match
NextCommandStr ==
    SubSeq(response_text, NextMatch(response_text, scan).from,
           NextMatch(response_text, scan).to)

\* the next match is a call of a whitelisted handler by its name, and one
\* of its arguments is no literal
NonLiteralNext ==
    /\ scan > 0
    /\ NextMatch(response_text, scan).ok
    /\ StartsWithKnownCommand(NextCommandStr)
    /\ AstParse(NextCommandStr).node = "Call"
    /\ AstParse(NextCommandStr).func_is_name
    /\ AstParse(NextCommandStr).id \in KnownCommands
    /\ \E k \in DOMAIN AstParse(NextCommandStr).args :
          LET arg == SelectSeq(AstParse(NextCommandStr).args[k], LAMBDA x : x \notin {LP, RP})
          IN  Len(arg) # 1 \/ arg[1] \notin StringLiterals

Mutators == {"create_file", "write_to_file", "delete_file", "rename_file"}

FileChangedIn(events) == {k \in DOMAIN events : events[k].type = "file_changed"}

\* C33: every successful create, write, delete or rename directive appends
\* exactly one entry to the record of recent changes, marks the cached file
\* listing stale and emits a file-changed event; one that fails appends no
\* entry and emits no file-changed event.
C33_ChangesRecordedOnSuccessOnly ==
    [][lastCmd'.func_name \in Mutators /\ Len(dispatched') = Len(dispatched) + 1 =>
          LET call == dispatched'[Len(dispatched')]
          IN  IF lastCmd'.events[1].icon \in {"OK", "TRASH"}
              THEN /\ recent_changes' =
                          LastKept(Append(recent_changes,
                                          [command |-> call.func_name, args |-> call.args]))
                   /\ project_files_changed'
                   /\ Cardinality(FileChangedIn(lastCmd'.events)) = 1
              ELSE /\ recent_changes' = recent_changes
                   /\ FileChangedIn(lastCmd'.events) = {}]_vars

(***************************************************************************)
(* Properties of create, write and rename.                                  *)
(***************************************************************************)

\* the path names something that exists in the workspace
ExistsInWorkspace(f, path) == SafePath(f, path).ok /\ Exists(f, SafePath(f, path).path)

CreateRefusesExisting(f, path, content) ==
    ExistsInWorkspace(f, path) =>
        CreateFile(f, path, content) = Ret("ERR", "File already exists", f)

WriteIdempotent(f, path, content) ==
    \E once \in {WriteToFile(f, path, content)} :
        WriteToFile(once.fs, path, content) = once

WriteOverwrites(f, path, content) ==
    \E once \in {WriteToFile(f, path, content)} :
        /\ once.res = Res("OK", "Updated file")
        /\ once.fs[SafePath(f, path).path] = FileNode(content)

C35_RenameRefusedKeepsTarget ==
    \A old_path \in PathArgs, new_path \in PathArgs :
        (\/ Escapes(fs, old_path)
         \/ Escapes(fs, new_path)
         \/ SafePath(fs, old_path).ok /\ ~ExistsInWorkspace(fs, old_path)
         \/ ExistsInWorkspace(fs, new_path))
        => \E r \in {RenameFile(fs, old_path, new_path)} :
               r.res.icon = "ERR" /\ r.fs = fs

(***************************************************************************)
(* Properties of the grades.                                                *)
(***************************************************************************)

\* C36: the grade read from a critique is absent or an integer in 0..100;
\* the GRADE: n/100 pattern is tried first, the looser grade: n pattern only
\* when the first does not match.
C36_GradeAbsentOrInRange ==
    fnCall.name = "extract_grade" =>
        /\ fnCall.grade = NONE \/ fnCall.grade \in 0..100
        /\ FirstPattern(fnCall.agent_response) # NONE =>
               fnCall.grade = FirstPattern(fnCall.agent_response)
        /\ FirstPattern(fnCall.agent_response) = NONE =>
               fnCall.grade = SecondPattern(fnCall.agent_response)

(***************************************************************************)
(* Properties of the end of a run.                                          *)
(***************************************************************************)

\* C37: every run of the plan executor terminates under fair scheduling,
\* whatever the agents and the Planner do: the replans served in one request
\* are bounded, so a step that requests a replan on every new plan cannot keep
\* the run going forever.
C37_RunTerminates == <>(pc = "done")

(***************************************************************************)
(* Properties of the coder phase.                                           *)
(***************************************************************************)

\* the directives of the response that run a command
RunsAmong(directives) == {k \in DOMAIN directives : directives[k][2] = "run_command"}

FirstOf(S) == CHOOSE k \in S : \A o \in S : k <= o

\* the handlers called are those of the first n directives, in order
CalledFirst(called, directives, n) ==
    /\ Len(called) = n
    /\ \A k \in 1..n : called[k].func_name = directives[k][2]

\* what the directives before the n-th leave in a workspace
LeftBefore(f, prefs, directives, n, outcome, now) ==
    ProcessEnhancedCommands(NotCalled(f, prefs, <<>>, <<>>),
                            ResponseOf(SubSeq(directives, 1, n - 1)), 1, outcome, now)

\* C38: within one coder step, once a run directive fails and raises a
\* replan signal, no directive that follows it in the response is dispatched,
\* and the directives before it have taken effect in the workspace and stay
\* in effect.
C38_NothingDispatchedAfterReplanSignal ==
    [][(fnCall'.name = "coder phase" /\ fnCall.name = "none"
        /\ fnCall'.outcome.code # 0 /\ RunsAmong(fnCall'.directives) # {}) =>
          \E n \in {FirstOf(RunsAmong(fnCall'.directives))} :
          \E before \in {LeftBefore(fs, user_preferences, fnCall'.directives, n,
                                    fnCall'.outcome, clock)} :
              /\ CalledFirst(fnCall'.called, fnCall'.directives, n)
              /\ fnCall'.returned = "replan_triggered"
              /\ fs' = before.fs
              /\ recent_changes' = LastKept(recent_changes \o before.changes)]_vars

\* a response of three directives whose second, a run directive, failed: the
\* file of the first is in the workspace, the file the third deletes is too
C38_Witness ==
    /\ fnCall.name = "coder phase"
    /\ fnCall.outcome.code = 1
    /\ Len(fnCall.directives) = 3
    /\ fnCall.directives[1][2] = "create_file"
    /\ fnCall.directives[2][2] = "run_command"
    /\ fnCall.directives[3][2] = "delete_file"
    /\ Len(fnCall.called) = 2
    /\ IsFile(fs, Root \o <<B_PNG>>)
    /\ IsFile(fs, Root \o <<A_TXT>>)
    /\ Len(recent_changes) = 1

(***************************************************************************)
(* Properties of the retry decision as the loop of the fallback acts on it. *)
(***************************************************************************)

\* C39: whenever the retry condition holds and the attempt number is below
\* max_retry_attempts, the retry controller returns "retry" and the coder is
\* invoked again with the feedback-prefixed prompt, for every combination of
\* critique results, the ones with a critique without a grade included.
C39_RetryConditionStartsNextAttempt ==
    Finalized /\ fnCall.perform_retry /\ current_attempt < max_retry_attempts
        => /\ fnCall.should_retry
           /\ AttemptMayStart
           /\ fnCall.current_main_coder_prompt = <<RETRY_INTRO, ENHANCED>>

(***************************************************************************)
(* Properties of the journal under two threads.                             *)
(***************************************************************************)

\* C40: every call of _log_to_memory writes its line even when the worker
\* thread and the main thread (through clear_memory_file) call it in any
\* interleaving: no call is dropped at the test of _logging_memory, and no
\* line written by one thread is lost by the other's read, prune and rewrite.
C40_NoAppendDroppedOrLost ==
    fnCall.name = "threads" => fnCall.dropped = {} /\ fnCall.lost = {}

=============================================================================
